---- MODULE Spec2Model ----
(***************************************************************************)
(* Model of the retail-surveillance core (src/retail-surveillance/src):    *)
(* the ByteTracker, the Zone / ZoneCounter occupancy counters, the pure     *)
(* geometry they rest on (calculate_iou, contains_point), the VideoBuffer  *)
(* of recent frames, the VideoClipExtractor worker that cuts clips, the    *)
(* RiskAnalyzer, the phase-5 POS event handler and the phase-6 frame tasks. *)
(*                                                                         *)
(* Coordinates.  The code works on f32 values normalised to [0, 1].  The   *)
(* model places every coordinate on a dyadic grid (multiples of 1/16) and  *)
(* stores the integer numerator.  A box whose centre is taken has even     *)
(* width and height, so x + width / 2.0 is a grid point as well.  Sums,    *)
(* differences and products of such values are exact in f32, so the        *)
(* integer arithmetic of the model is the arithmetic of the code.  A       *)
(* quotient (an IOU) is kept as the pair <<numerator, denominator>> and    *)
(* compared by cross multiplication.                                       *)
(***************************************************************************)
EXTENDS Integers, Sequences, FiniteSets, TLC

VARIABLES
    tracks,          \* ByteTracker.tracks : Vec<Track>
    next_id,         \* ByteTracker.next_id
    ret,             \* the Vec<Detection> the last update() returned
    dets,            \* history: the argument of the last update()
    matched,         \* history: ids of the tracks matched in the last update()
    spawned,         \* history: ids of the tracks created in the last update()
    lost,            \* history: the tracks marked Lost (and purged) in the last update()
    removed,         \* history: ids of all tracks purged so far
    seen,            \* history: id -> number of frames that contained the track
    frame,           \* history: number of update() calls so far, counted up to MaxFrames
    zones,           \* ZoneCounter.zones : Vec<Zone>
    track_positions, \* ZoneCounter.track_positions : HashMap<u32, (f32, f32)>
    tracked,         \* history: the argument of the last ZoneCounter.update()
    zone_panicked,   \* history: some ZoneCounter.update() call panicked
    pt_zone, pt,     \* the zone and the point contains_point is applied to
    pt_inside,       \* what contains_point returned for them, <<>> before the call
    iou_a, iou_b,    \* the two boxes calculate_iou is applied to
    iou,             \* what calculate_iou returned for them, <<>> before the calls
    now,             \* Utc::now(), in seconds
    max_duration,    \* VideoBuffer.max_duration, in seconds
    frames,          \* VideoBuffer.frames : VecDeque<FrameData>
    extracted,       \* history: what the last extract_frames() returned
    ex_window,       \* history: <<start, end>> of the last extract_frames()
    buf_op,          \* history: the last thing that happened to the buffer:
                     \* "none", "add", "tick" or "extract"
    queue,           \* the requests in the mpsc channel request_tx -> request_rx
    next_req,        \* the id the next request gets (ids stand for fresh Uuids)
    worker,          \* where VideoClipExtractor::run() is: "start", "recv",
                     \* "lock", "extract", "paths", "save", "thumb" or "stopped"
    current,         \* <<request>> while process_request runs, <<>> otherwise
    clip_frames,     \* the local `frames` of process_request
    buffered,        \* history: the buffer as process_request found it
    fs,              \* the directories and files created under output_dir
    started,         \* history: ids of the requests received, in order
    done,            \* history: id and outcome of the requests finished, in order
    last_result,     \* history: <<what the last process_request returned>>
    buf_lock,        \* who holds the Mutex around VideoBuffer.frames between two
                     \* steps: "free" or "worker"
    risk_event,      \* the POSEvent the RiskAnalyzer is applied to
    risk,            \* <<[score, alert]>>: what calculate_risk_score and
                     \* should_alert returned for it, <<>> before the calls
    p5_clip_sender,  \* phase 5: clip_sender.is_some()
    p5_channel,      \* the requests in the mpsc channel behind clip_sender
    p5_pc,           \* where the POS handler task waits: "recv" or "send"
    p5_event,        \* <<the event the handler received last>>
    p5_request,      \* the VideoClipRequest the handler built last
    p5_uuid,         \* the next value of Uuid::new_v4()
    p5_metrics,      \* the counters pos_events, alerts_triggered, clips_generated
    p6_frame_count,  \* phase 6: metrics.frame_count, the frames delivered
    p6_tasks,        \* the task spawned for each frame, by arrival number:
                     \* [pc, detections, tracked]
    p6_tracker_order,    \* history: the frames tracker.update() was called for
    p6_zone_order,   \* history: the frames zone_counter.update() was called for
    p6_shutdown      \* the shutdown flag

\* mx_holder: who holds the Mutex of VideoBuffer.frames: "none", "ingest" or "extract"
\* mx_ingest: the ingestion thread inside add_frame: [pc, ts], pc "idle", "locked" or "appended"
\* mx_extract: the extraction thread inside extract_frames: "idle" or "locked"
\* mx_committed: history: the values of frames seen while no add_frame was under way
VARIABLES
    mx_holder,
    mx_ingest,
    mx_extract,
    mx_committed

\* mg_extractors: VideoClipManager.extractors: per extractor its camera_id and the requests in its channel
\* mg_uuid: the next value of Uuid::new_v4() for the manager and its callers
\* mg_request: the VideoClipRequest request_clip built last, with its camera_id
\* mg_returned: history: <<id, camera_id>> for every Ok(id) request_clip returned
VARIABLES
    mg_extractors,
    mg_uuid,
    mg_request,
    mg_returned

\* cl_senders: the clones of the extractor's sender that get_sender handed out and that are still alive
VARIABLES
    cl_senders

\* mq_pc: where POSIntegration::run is: "poll" in its loop, "returned" after it returned Err
\* mq_events: self.events, the events stored for correlation
\* mq_alerts: the ids of the events trigger_alert was called for
\* mq_polls: the number of results eventloop.poll() has yielded
\* mq_malformed: whether a payload that does not parse has been received
\* mq_reconnects: the number of connection errors run() has slept on
VARIABLES
    mq_pc,
    mq_events,
    mq_alerts,
    mq_polls,
    mq_malformed,
    mq_reconnects

vars == <<tracks, next_id, ret, dets, matched, spawned, lost, removed, seen, frame,
          zones, track_positions, tracked, zone_panicked, pt_zone, pt, pt_inside,
          iou_a, iou_b, iou, now, max_duration, frames, extracted, ex_window, buf_op,
          queue, next_req, worker, current, clip_frames, buffered, fs, started, done,
          last_result, buf_lock, risk_event, risk, p5_clip_sender, p5_channel, p5_pc,
          p5_event, p5_request, p5_uuid, p5_metrics, p6_frame_count, p6_tasks,
          p6_tracker_order, p6_zone_order, p6_shutdown,
          mx_holder, mx_ingest, mx_extract, mx_committed,
          mg_extractors, mg_uuid, mg_request, mg_returned,
          cl_senders,
          mq_pc, mq_events, mq_alerts, mq_polls, mq_malformed, mq_reconnects>>

trackerVars == <<tracks, next_id, ret, dets, matched, spawned, lost, removed, seen,
                 frame>>
zoneVars == <<zones, track_positions, tracked, zone_panicked>>
pointVars == <<pt_zone, pt, pt_inside>>
iouVars == <<iou_a, iou_b, iou>>
bufferVars == <<now, max_duration, frames, extracted, ex_window, buf_op>>
clipVars == <<queue, next_req, worker, current, clip_frames, buffered, fs, started,
              done, last_result, buf_lock>>
riskVars == <<risk_event, risk>>
posVars == <<p5_clip_sender, p5_channel, p5_pc, p5_event, p5_request, p5_uuid, p5_metrics>>
pipeVars == <<p6_frame_count, p6_tasks, p6_tracker_order, p6_zone_order, p6_shutdown>>
mutexVars == <<mx_holder, mx_ingest, mx_extract, mx_committed>>
managerVars == <<mg_extractors, mg_uuid, mg_request, mg_returned>>
senderVars == <<cl_senders>>
mqttVars == <<mq_pc, mq_events, mq_alerts, mq_polls, mq_malformed, mq_reconnects>>

(***************************************************************************)
(* Bounds of the model.                                                    *)
(***************************************************************************)
MaxFrames == 3    \* Spec explores the first MaxFrames calls of update()
MaxId == 3        \* SpecAging explores update() while next_id stays <= MaxId + 1
MaxHits == 4      \* ... and while no track's hit counter exceeds MaxHits
MaxCoord == 2     \* SpecIou: largest x / y of a box given to calculate_iou
MaxSide == 2      \* SpecIou: largest width / height of a box given to calculate_iou
MaxCount == 2     \* SpecZone explores ZoneCounter.update() while entry_count and
                  \* exit_count stay <= MaxCount
TimeStep == 60    \* the clock advances in steps of TimeStep seconds
MaxTime == 180    \* ... from 0 up to MaxTime seconds
MaxBuffered == 3  \* add_frame is explored while the buffer holds < MaxBuffered frames
MaxRequests == 2  \* SpecClip: number of clip requests sent
MaxQueue == 2     \* SpecClip: requests are sent while fewer than MaxQueue wait
MaxQuiet == 2     \* SpecPos: number of events below the alert cutoff
MaxPipeFrames == 3    \* SpecPipe: number of frames the sink delivers
MaxCameras == 2   \* SpecManager: number of add_camera calls
MaxManagerCalls == 2  \* SpecManager: number of request_clip calls
MaxSenders == 2   \* SpecClipLive: number of senders alive at a time
MaxPolls == 4     \* SpecMqtt: results yielded by eventloop.poll()
MaxPoint == 10    \* SpecPoint: contains_point is applied to the grid points with
                  \* coordinates in -2 .. MaxPoint

(***************************************************************************)
(* Program constants.                                                      *)
(***************************************************************************)
max_age == 30
min_hits == 3
IouThresholdNum == 3    \* iou_threshold = 0.3 = IouThresholdNum / IouThresholdDen
IouThresholdDen == 10
BUFFER_DURATION_SECS == 120
ChannelCapacity == 100  \* mpsc::channel(100)
high_value_threshold == 1000    \* POSConfig::default()
discount_threshold == 30
TestBufferSecs == 60    \* the retention test_video_buffer constructs its buffer with

\* Option<u32> of Detection.track_id: None is the empty set, Some(id) is {id}
None == {}
Some(id) == {id}
\* the id inside Some(id)
Unwrap(o) == CHOOSE id \in o : TRUE

Max(a, b) == IF a >= b THEN a ELSE b
Min(a, b) == IF a <= b THEN a ELSE b

\* struct Detection (confidence is carried along unread by everything modelled
\* here and is left out).
Det(x, y, w, h) == [x |-> x, y |-> y, width |-> w, height |-> h, track_id |-> None]

\* Detection::center
center(d) == <<d.x + d.width \div 2, d.y + d.height \div 2>>

\* Variant of calculate_iou: the union counts the intersection twice
calculate_iou_Sum(det1, det2) ==
    LET x1 == Max(det1.x, det2.x)
        y1 == Max(det1.y, det2.y)
        x2 == Min(det1.x + det1.width, det2.x + det2.width)
        y2 == Min(det1.y + det1.height, det2.y + det2.height)
        intersection == (x2 - x1) * (y2 - y1)
        area1 == det1.width * det1.height
        area2 == det2.width * det2.height
        union == area1 + area2
    IN  IF x2 <= x1 \/ y2 <= y1 THEN <<0, 1>>
        ELSE IF union > 0 THEN <<intersection, union>>
        ELSE <<0, 1>>

(***************************************************************************)
(* ByteTracker::calculate_iou.  The result is the quotient                 *)
(* intersection / union as a pair; 0.0 is <<0, 1>>.                        *)
(***************************************************************************)
calculate_iou(det1, det2) ==
    LET x1 == Max(det1.x, det2.x)
        y1 == Max(det1.y, det2.y)
        x2 == Min(det1.x + det1.width, det2.x + det2.width)
        y2 == Min(det1.y + det1.height, det2.y + det2.height)
        intersection == (x2 - x1) * (y2 - y1)
        area1 == det1.width * det1.height
        area2 == det2.width * det2.height
        union == area1 + area2 - intersection
    IN  IF x2 <= x1 \/ y2 <= y1 THEN <<0, 1>>
        ELSE IF union > 0 THEN <<intersection, union>>
        ELSE <<0, 1>>

\* p > q for quotients with positive denominators (f32 `>`)
IouGt(p, q) == p[1] * q[2] > q[1] * p[2]

(***************************************************************************)
(* ByteTracker::match_detections_by_indices.  Indices are 1-based here     *)
(* (the code's i is i - 1).  track_indices is a sequence of indices into   *)
(* trks.                                                                   *)
(***************************************************************************)
\* iou_matrix[i][j]
IouEntry(trks, detections, track_indices, i, j) ==
    IF track_indices[j] <= Len(trks)
    THEN calculate_iou(detections[i], trks[track_indices[j]].bbox)
    ELSE <<0, 1>>

\* The inner loop `for j in 0..track_indices.len()`: the first unmatched track
\* of strictly largest IOU above the threshold; 0 stands for best_j = None.
RECURSIVE BestTrack(_, _, _, _, _, _, _, _)
BestTrack(trks, detections, track_indices, matched_tracks, i, j, best_j, best_iou) ==
    IF j > Len(track_indices) THEN best_j
    ELSE IF j \in matched_tracks
         THEN BestTrack(trks, detections, track_indices, matched_tracks, i, j + 1,
                        best_j, best_iou)
    ELSE LET v == IouEntry(trks, detections, track_indices, i, j)
         IN  IF IouGt(v, best_iou)
             THEN BestTrack(trks, detections, track_indices, matched_tracks, i, j + 1,
                            j, v)
             ELSE BestTrack(trks, detections, track_indices, matched_tracks, i, j + 1,
                            best_j, best_iou)

\* The outer loop `for i in 0..detections.len()`.  acc.pairs is `matched`
\* (pairs <<detection index, track index>>), acc.mt is matched_tracks and
\* acc.md is matched_dets.
RECURSIVE MatchLoop(_, _, _, _, _)
MatchLoop(trks, detections, track_indices, i, acc) ==
    IF i > Len(detections) THEN acc
    ELSE LET j == BestTrack(trks, detections, track_indices, acc.mt, i, 1, 0,
                            <<IouThresholdNum, IouThresholdDen>>)
         IN  IF j # 0
             THEN MatchLoop(trks, detections, track_indices, i + 1,
                            [pairs |-> Append(acc.pairs, <<i, track_indices[j]>>),
                             mt |-> acc.mt \cup {j},
                             md |-> acc.md \cup {i}])
             ELSE MatchLoop(trks, detections, track_indices, i + 1, acc)

\* Variant: the matched detections are collected as well
CollectUnmatched_All(detections, md, i) == SubSeq(detections, i, Len(detections))

\* `for (i, det) in detections.iter().enumerate() { if !matched_dets[i] ... }`
RECURSIVE CollectUnmatched(_, _, _)
CollectUnmatched(detections, md, i) ==
    IF i > Len(detections) THEN <<>>
    ELSE IF i \in md THEN CollectUnmatched(detections, md, i + 1)
    ELSE <<detections[i]>> \o CollectUnmatched(detections, md, i + 1)

match_detections_by_indices(trks, detections, track_indices) ==
    IF detections = <<>> \/ track_indices = <<>>
    THEN [matched |-> <<>>, unmatched_dets |-> detections]
    ELSE LET acc == MatchLoop(trks, detections, track_indices, 1,
                              [pairs |-> <<>>, mt |-> {}, md |-> {}])
         IN  [matched |-> acc.pairs,
              unmatched_dets |-> CollectUnmatched(detections, acc.md, 1)]

(***************************************************************************)
(* ByteTracker::update, step by step.                                      *)
(***************************************************************************)
\* `for track in &mut self.tracks { track.age += 1; }`
RECURSIVE AgeFrom(_, _)
AgeFrom(trks, k) ==
    IF k > Len(trks) THEN <<>>
    ELSE <<[trks[k] EXCEPT !.age = @ + 1]>> \o AgeFrom(trks, k + 1)

AgeTracks(trks) == AgeFrom(trks, 1)

\* confirmed_indices / tentative_indices: the indices, ascending, of the
\* tracks in state st
RECURSIVE IndicesFrom(_, _, _)
IndicesFrom(trks, st, k) ==
    IF k > Len(trks) THEN <<>>
    ELSE IF trks[k].state = st THEN <<k>> \o IndicesFrom(trks, st, k + 1)
    ELSE IndicesFrom(trks, st, k + 1)

IndicesOf(trks, st) == IndicesFrom(trks, st, 1)

\* The box a matched pair hands to its track: `detections[*det_idx]` when
\* det_idx < detections.len(), else `unmatched_dets[det_idx - detections.len()]`
\* (det_idx is 1-based here).
MatchedBox(detections, unmatched_dets, det_idx) ==
    IF det_idx <= Len(detections)
    THEN detections[det_idx]
    ELSE unmatched_dets[det_idx - Len(detections)]

\* `for (det_idx, track_idx) in matched_confirmed.iter().chain(matched_tentative.iter())`
RECURSIVE ApplyMatches(_, _, _, _, _)
ApplyMatches(trks, pairs, detections, unmatched_dets, n) ==
    IF n > Len(pairs) THEN trks
    ELSE LET det_idx == pairs[n][1]
             track_idx == pairs[n][2]
             upd == IF track_idx <= Len(trks)
                    THEN [trks EXCEPT ![track_idx] =
                            [@ EXCEPT !.bbox = MatchedBox(detections, unmatched_dets, det_idx),
                                      !.age = 0]]
                    ELSE trks
         IN  ApplyMatches(upd, pairs, detections, unmatched_dets, n + 1)

\* The Track built for an unmatched detection
NewTrack(id, det) ==
    [id |-> id, bbox |-> det, hits |-> 1, age |-> 0, state |-> "Tentative",
     velocity |-> <<0, 0>>]

\* `for det in unmatched_dets { ...; self.tracks.push(track); self.next_id += 1; }`
RECURSIVE SpawnTracks(_, _, _)
SpawnTracks(trks, nid, unmatched_dets) ==
    IF unmatched_dets = <<>> THEN trks
    ELSE SpawnTracks(Append(trks, NewTrack(nid, Head(unmatched_dets))), nid + 1,
                     Tail(unmatched_dets))

\* self.next_id after the loop that creates the tracks (`self.next_id += 1`
\* once per unmatched detection).  Variant: the increment is missing.
NextIdAfter_Stuck(nid, unmatched_dets) == nid

NextIdAfter(nid, unmatched_dets) == nid + Len(unmatched_dets)

\* Variant: a Confirmed track that misses a frame falls back to Tentative
UpdateState_Demote(t) ==
    IF t.age = 0
    THEN LET h == [t EXCEPT !.hits = @ + 1]
         IN  IF h.state = "Tentative" /\ h.hits >= min_hits
             THEN [h EXCEPT !.state = "Confirmed"]
             ELSE h
    ELSE IF t.age > max_age THEN [t EXCEPT !.state = "Lost"]
    ELSE [t EXCEPT !.state = "Tentative"]

\* Variant: a track is given up when its age reaches max_age
UpdateState_Early(t) ==
    IF t.age = 0
    THEN LET h == [t EXCEPT !.hits = @ + 1]
         IN  IF h.state = "Tentative" /\ h.hits >= min_hits
             THEN [h EXCEPT !.state = "Confirmed"]
             ELSE h
    ELSE IF t.age >= max_age THEN [t EXCEPT !.state = "Lost"]
    ELSE t

\* The body of `for track in &mut self.tracks` under "Update track states"
UpdateState(t) ==
    IF t.age = 0
    THEN LET c == center(t.bbox)
             h == [t EXCEPT !.hits = @ + 1,
                            !.velocity = <<c[1] - (t.bbox.x + t.bbox.width \div 2),
                                           c[2] - (t.bbox.y + t.bbox.height \div 2)>>]
         IN  IF h.state = "Tentative" /\ h.hits >= min_hits
             THEN [h EXCEPT !.state = "Confirmed"]
             ELSE h
    ELSE IF t.age > max_age THEN [t EXCEPT !.state = "Lost"]
    ELSE t

\* The loop "Update track states"
RECURSIVE UpdateStates(_, _)
UpdateStates(trks, k) ==
    IF k > Len(trks) THEN <<>>
    ELSE <<UpdateState(trks[k])>> \o UpdateStates(trks, k + 1)

\* `self.tracks.retain(|t| t.state != TrackState::Lost)`, and its complement
RECURSIVE Filter(_, _, _)
Filter(trks, keepLost, k) ==
    IF k > Len(trks) THEN <<>>
    ELSE IF (trks[k].state = "Lost") = keepLost
         THEN <<trks[k]>> \o Filter(trks, keepLost, k + 1)
    ELSE Filter(trks, keepLost, k + 1)

RetainNotLost(trks) == Filter(trks, FALSE, 1)

\* The value update() returns
RECURSIVE Tagged(_, _)
Tagged(trks, k) ==
    IF k > Len(trks) THEN <<>>
    ELSE IF trks[k].state = "Confirmed" /\ trks[k].age = 0
         THEN <<[trks[k].bbox EXCEPT !.track_id = Some(trks[k].id)]>> \o Tagged(trks, k + 1)
    ELSE Tagged(trks, k + 1)

\* Variant: the filter forgets `t.age == 0`
RECURSIVE Tagged_NoAge(_, _)
Tagged_NoAge(trks, k) ==
    IF k > Len(trks) THEN <<>>
    ELSE IF trks[k].state = "Confirmed"
         THEN <<[trks[k].bbox EXCEPT !.track_id = Some(trks[k].id)]>> \o Tagged_NoAge(trks, k + 1)
    ELSE Tagged_NoAge(trks, k + 1)

Returned_NoAge(trks) == Tagged_NoAge(trks, 1)

Returned(trks) == Tagged(trks, 1)

\* One call of update(detections) on the tracker state (trks, nid): the new
\* state, the returned value, and what the call matched, created and purged.
UpdateCall(trks, nid, detections) ==
    LET aged == AgeTracks(trks)
        confirmed_indices == IndicesOf(aged, "Confirmed")
        tentative_indices == IndicesOf(aged, "Tentative")
        m1 == match_detections_by_indices(aged, detections, confirmed_indices)
        m2 == match_detections_by_indices(aged, m1.unmatched_dets, tentative_indices)
        pairs == m1.matched \o m2.matched
        upd == ApplyMatches(aged, pairs, detections, m2.unmatched_dets, 1)
        grown == SpawnTracks(upd, nid, m2.unmatched_dets)
        stated == UpdateStates(grown, 1)
    IN  [tracks |-> RetainNotLost(stated),
         next_id |-> NextIdAfter(nid, m2.unmatched_dets),
         ret |-> Returned(RetainNotLost(stated)),
         matched |-> {aged[pairs[n][2]].id : n \in 1..Len(pairs)},
         spawned |-> {nid + k - 1 : k \in 1..Len(m2.unmatched_dets)},
         lost |-> Filter(stated, TRUE, 1)]

Ids(s) == {s[k].id : k \in 1..Len(s)}

(***************************************************************************)
(* The tracker as a state machine.                                         *)
(***************************************************************************)
\* ByteTracker::new
TrackerInit ==
    /\ tracks = <<>>
    /\ next_id = 1
    /\ ret = <<>>
    /\ dets = <<>>
    /\ matched = {}
    /\ spawned = {}
    /\ lost = <<>>
    /\ removed = {}
    /\ seen = <<>>
    /\ frame = 0

\* The boxes the inference service reports: BoxA and BoxA2 overlap with IOU
\* 8/24 (above the threshold), BoxC and BoxD are disjoint from every other box.
BoxA == Det(0, 0, 4, 4)
BoxA2 == Det(2, 0, 4, 4)
BoxC == Det(8, 0, 4, 4)
BoxD == Det(0, 8, 4, 4)
TrackerBoxes == {BoxA, BoxA2, BoxC, BoxD}

\* The detection lists of one frame: the lists of distinct boxes that leave
\* at least one box out
RECURSIVE Arrangements(_)
Arrangements(S) ==
    {<<>>} \cup UNION {{<<b>> \o q : q \in Arrangements(S \ {b})} : b \in S}

DetLists == {q \in Arrangements(TrackerBoxes) : Len(q) < Cardinality(TrackerBoxes)}

\* tracker.update(detections)
Update(detections) ==
    \E r \in {UpdateCall(tracks, next_id, detections)} :
        /\ tracks' = r.tracks
        /\ next_id' = r.next_id
        /\ ret' = r.ret
        /\ dets' = detections
        /\ matched' = r.matched
        /\ spawned' = r.spawned
        /\ lost' = r.lost
        /\ removed' = removed \cup Ids(r.lost)
        /\ seen' = [id \in Ids(r.tracks) |->
                      IF id \in r.spawned THEN 1
                      ELSE IF id \in r.matched THEN seen[id] + 1
                      ELSE seen[id]]
        /\ frame' = Min(frame + 1, MaxFrames)

\* Long runs of a scene with at most two objects: the bound is on the ids
\* handed out and on the hit counters, not on the number of frames, so that
\* tracks can stay unmatched for more than max_age frames.
AgingLists == {<<>>, <<BoxA>>, <<BoxA2>>, <<BoxC>>}

WithinAgingBounds ==
    /\ next_id <= MaxId + 1
    /\ \A k \in 1..Len(tracks) : tracks[k].hits <= MaxHits

(***************************************************************************)
(* Zone and ZoneCounter.                                                   *)
(***************************************************************************)
\* Zone::new (the name is not read by anything modelled here)
NewZone(id, polygon) ==
    [id |-> id, polygon |-> polygon, entry_count |-> 0, exit_count |-> 0,
     current_count |-> 0]

\* Variant: a point on the edge counts as left of it
LeftOfEdge_Closed(p1, p2, x, y) ==
    LET dx == p2[1] - p1[1]
        dy == p2[2] - p1[2]
    IN  IF dy > 0 THEN (x - p1[1]) * dy <= dx * (y - p1[2])
        ELSE (x - p1[1]) * dy >= dx * (y - p1[2])

\* The test `x < slope * (y - p1.1) + p1.0` with slope = (p2.0 - p1.0) / (p2.1 - p1.1),
\* cleared of the division (p2.1 # p1.1 where it is evaluated)
LeftOfEdge(p1, p2, x, y) ==
    LET dx == p2[1] - p1[1]
        dy == p2[2] - p1[2]
    IN  IF dy > 0 THEN (x - p1[1]) * dy < dx * (y - p1[2])
        ELSE (x - p1[1]) * dy > dx * (y - p1[2])

\* The loop `for p2 in &self.polygon` of Zone::contains_point
RECURSIVE RayCast(_, _, _, _, _, _)
RayCast(polygon, x, y, k, p1, inside) ==
    IF k > Len(polygon) THEN inside
    ELSE LET p2 == polygon[k]
             flip == /\ (p2[2] > y) # (p1[2] > y)
                     /\ LeftOfEdge(p1, p2, x, y)
         IN  RayCast(polygon, x, y, k + 1, p2, IF flip THEN ~inside ELSE inside)

\* `self.polygon[n - 1]` with n = 0: n - 1 overflows usize (a panic in a debug
\* build) or wraps to usize::MAX, an index out of bounds (a panic in a release
\* build)
ContainsPanics(zone) == Len(zone.polygon) = 0

\* Zone::contains_point, for a polygon with at least one vertex
contains_point(zone, x, y) ==
    LET n == Len(zone.polygon)
    IN  RayCast(zone.polygon, x, y, 1, zone.polygon[n], FALSE)

\* Variant: the decrement is not floored
update_count_NoFloor(zone, prev_inside, curr_inside) ==
    IF ~prev_inside /\ curr_inside
    THEN [zone EXCEPT !.entry_count = @ + 1, !.current_count = @ + 1]
    ELSE IF prev_inside /\ ~curr_inside
    THEN [zone EXCEPT !.exit_count = @ + 1, !.current_count = @ - 1]
    ELSE zone

\* Zone::update_count
update_count(zone, prev_inside, curr_inside) ==
    IF ~prev_inside /\ curr_inside
    THEN [zone EXCEPT !.entry_count = @ + 1, !.current_count = @ + 1]
    ELSE IF prev_inside /\ ~curr_inside
    THEN [zone EXCEPT !.exit_count = @ + 1, !.current_count = Max(@ - 1, 0)]
    ELSE zone

\* Variant: a track without a previous position counts as coming from outside
ZoneStep_FromOutside(zone, has_prev, prev, c) ==
    LET curr_inside == contains_point(zone, c[1], c[2])
    IN  IF has_prev
        THEN update_count(zone, contains_point(zone, prev[1], prev[2]), curr_inside)
        ELSE update_count(zone, FALSE, curr_inside)

\* The body of `for zone in &mut self.zones` for one detection; has_prev is
\* `prev_pos.is_some()`
ZoneStep(zone, has_prev, prev, c) ==
    LET curr_inside == contains_point(zone, c[1], c[2])
    IN  IF has_prev
        THEN update_count(zone, contains_point(zone, prev[1], prev[2]), curr_inside)
        ELSE zone

RECURSIVE ZonesStep(_, _, _, _, _)
ZonesStep(zs, has_prev, prev, c, k) ==
    IF k > Len(zs) THEN <<>>
    ELSE <<ZoneStep(zs[k], has_prev, prev, c)>> \o ZonesStep(zs, has_prev, prev, c, k + 1)

\* HashMap::insert
MapInsert(m, key, val) ==
    [q \in DOMAIN m \cup {key} |-> IF q = key THEN val ELSE m[q]]

\* The loop `for det in tracked_detections` of ZoneCounter::update; st is
\* the pair of self.zones and self.track_positions
RECURSIVE ZoneLoop(_, _, _)
ZoneLoop(st, tracked_detections, n) ==
    IF n > Len(tracked_detections) THEN st
    ELSE LET det == tracked_detections[n]
         IN  IF det.track_id = None
             THEN ZoneLoop(st, tracked_detections, n + 1)
             ELSE LET c == center(det)
                      track_id == Unwrap(det.track_id)
                      has_prev == track_id \in DOMAIN st.track_positions
                      prev == IF has_prev THEN st.track_positions[track_id] ELSE c
                  IN  ZoneLoop([zones |-> ZonesStep(st.zones, has_prev, prev, c, 1),
                                track_positions |->
                                    MapInsert(st.track_positions, track_id, c)],
                               tracked_detections, n + 1)

\* Variant: no "Clean up old tracks"
ZoneUpdateCall_NoRetain(zs, positions, tracked_detections) ==
    LET st == ZoneLoop([zones |-> zs, track_positions |-> positions],
                       tracked_detections, 1)
    IN  [zones |-> st.zones, track_positions |-> st.track_positions]

\* ZoneCounter::update: the loop, then "Clean up old tracks"
ZoneUpdateCall(zs, positions, tracked_detections) ==
    LET st == ZoneLoop([zones |-> zs, track_positions |-> positions],
                       tracked_detections, 1)
        active_ids == UNION {tracked_detections[n].track_id :
                                n \in 1..Len(tracked_detections)}
    IN  [zones |-> st.zones,
         track_positions |-> [q \in DOMAIN st.track_positions \cap active_ids |->
                                 st.track_positions[q]]]

\* The first zone at or after k whose contains_point panics, 0 if there is none
RECURSIVE FirstPanic(_, _)
FirstPanic(zs, k) ==
    IF k > Len(zs) THEN 0
    ELSE IF ContainsPanics(zs[k]) THEN k
    ELSE FirstPanic(zs, k + 1)

\* The first detection at or after n that carries a track id, 0 if there is none
RECURSIVE FirstTagged(_, _)
FirstTagged(tracked_detections, n) ==
    IF n > Len(tracked_detections) THEN 0
    ELSE IF tracked_detections[n].track_id # None THEN n
    ELSE FirstTagged(tracked_detections, n + 1)

\* ZoneCounter::update panics: the zone loop runs for the first detection with
\* a track id and reaches a zone whose contains_point panics
UpdatePanics(zs, tracked_detections) ==
    FirstPanic(zs, 1) # 0 /\ FirstTagged(tracked_detections, 1) # 0

\* What a panicking ZoneCounter::update leaves behind: the zones in front of
\* the panicking one have seen the first detection with a track id, nothing
\* has been inserted into track_positions
ZoneUpdatePanic(zs, positions, tracked_detections) ==
    LET det == tracked_detections[FirstTagged(tracked_detections, 1)]
        k == FirstPanic(zs, 1)
        c == center(det)
        track_id == Unwrap(det.track_id)
        has_prev == track_id \in DOMAIN positions
        prev == IF has_prev THEN positions[track_id] ELSE c
    IN  [zones |-> ZonesStep(SubSeq(zs, 1, k - 1), has_prev, prev, c, 1)
                       \o SubSeq(zs, k, Len(zs)),
         track_positions |-> positions]

\* The configured zones: a square, and a triangle that overlaps its right half
SquareZone == NewZone("square", <<<<4, 4>>, <<12, 4>>, <<12, 12>>, <<4, 12>>>>)
TriangleZone == NewZone("triangle", <<<<8, 0>>, <<16, 8>>, <<8, 16>>>>)

\* ZoneCounter::new
ZoneInit ==
    /\ zones = <<SquareZone, TriangleZone>>
    /\ track_positions = <<>>
    /\ tracked = <<>>
    /\ zone_panicked = FALSE

\* Boxes of tracked objects by where their centre lies: outside both zones
\* (2, 2), in the square only (6, 8), in the square and the triangle (10, 8)
ZoneBoxes == {Det(0, 0, 4, 4), Det(4, 6, 4, 4), Det(8, 6, 4, 4)}
ZoneTrackIds == {1, 2}

\* What the tracker hands over: detections tagged with distinct track ids
TaggedBoxes == {[b EXCEPT !.track_id = Some(id)] : b \in ZoneBoxes, id \in ZoneTrackIds}

TrackedLists ==
    {q \in UNION {[1..k -> TaggedBoxes] : k \in 0..Cardinality(ZoneTrackIds)} :
        \A m, n \in 1..Len(q) : m # n => q[m].track_id # q[n].track_id}

\* zone_counter.update(&tracked); the task that runs a panicking call is
\* torn down, the tasks of later frames call update() again
ZoneUpdate(tracked_detections) ==
    \E r \in {IF UpdatePanics(zones, tracked_detections)
              THEN ZoneUpdatePanic(zones, track_positions, tracked_detections)
              ELSE ZoneUpdateCall(zones, track_positions, tracked_detections)} :
        /\ \A k \in 1..Len(r.zones) :
              r.zones[k].entry_count <= MaxCount /\ r.zones[k].exit_count <= MaxCount
        /\ zones' = r.zones
        /\ track_positions' = r.track_positions
        /\ tracked' = tracked_detections
        /\ zone_panicked' = (zone_panicked \/ UpdatePanics(zones, tracked_detections))

\* Zone lists that Zone::new and ZoneCounter::new accept: one or two zones
\* whose polygons have no, one, two or four vertices
AnyPolygons ==
    {<<>>, <<<<4, 4>>>>, <<<<4, 4>>, <<12, 12>>>>,
     <<<<4, 4>>, <<12, 4>>, <<12, 12>>, <<4, 12>>>>}

AnyZoneLists ==
    {<<NewZone("a", p)>> : p \in AnyPolygons}
        \cup {<<NewZone("a", p), NewZone("b", q)>> : p, q \in AnyPolygons}

\* ZoneCounter::new(zones) for any accepted zone list
AnyZoneInit ==
    /\ zones \in AnyZoneLists
    /\ track_positions = <<>>
    /\ tracked = <<>>
    /\ zone_panicked = FALSE

(***************************************************************************)
(* contains_point on its own: a zone and a point are drawn and the         *)
(* function is applied to them.  UnitSquare is the square (0,0), (1,0),    *)
(* (1,1), (0,1) of test_zone_contains_point, in units of 1/8; the other    *)
(* rectangle lists its corners in the opposite direction.                  *)
(***************************************************************************)
UnitSquare == NewZone("test", <<<<0, 0>>, <<8, 0>>, <<8, 8>>, <<0, 8>>>>)
Rectangle == NewZone("rect", <<<<2, 6>>, <<6, 6>>, <<6, 0>>, <<2, 0>>>>)
PointZones == {UnitSquare, Rectangle, TriangleZone}
Points == {<<x, y>> : x \in -2..MaxPoint, y \in -2..MaxPoint}

\* No contains_point call under way
PointIdle ==
    /\ pt_zone = UnitSquare
    /\ pt = <<0, 0>>
    /\ pt_inside = <<>>

PointInputs ==
    /\ pt_zone \in PointZones
    /\ pt \in Points
    /\ pt_inside = <<>>

Contains ==
    /\ pt_inside = <<>>
    /\ pt_inside' = <<contains_point(pt_zone, pt[1], pt[2])>>
    /\ UNCHANGED <<pt_zone, pt>>

(***************************************************************************)
(* calculate_iou on its own: two boxes are drawn, the function is applied  *)
(* to them in both orders and to the first with itself.                    *)
(***************************************************************************)
IouBoxes ==
    {Det(x, y, w, h) : x \in 0..MaxCoord, y \in 0..MaxCoord,
                       w \in 0..MaxSide, h \in 0..MaxSide}

\* No calculate_iou call under way
IouIdle ==
    /\ iou_a = Det(0, 0, 0, 0)
    /\ iou_b = Det(0, 0, 0, 0)
    /\ iou = <<>>

IouInputs ==
    /\ iou_a \in IouBoxes
    /\ iou_b \in IouBoxes
    /\ iou = <<>>

Calculate ==
    /\ iou = <<>>
    /\ iou' = [aa |-> calculate_iou(iou_a, iou_a),
               ab |-> calculate_iou(iou_a, iou_b),
               ba |-> calculate_iou(iou_b, iou_a)]
    /\ UNCHANGED <<iou_a, iou_b>>

(***************************************************************************)
(* VideoBuffer.  A frame is its timestamp in seconds; the pixel data and   *)
(* the dimensions are carried along unread by the buffer.  The clock and   *)
(* the timestamps take the values 0, TimeStep, 2 * TimeStep, ... MaxTime.  *)
(***************************************************************************)
Times == {k * TimeStep : k \in 0..(MaxTime \div TimeStep)}

FrameData(ts) == [timestamp |-> ts]

\* The loop `while let Some(front) = frames.front()` of add_frame
RECURSIVE EvictFront(_, _)
EvictFront(fr, cutoff) ==
    IF fr # <<>> /\ Head(fr).timestamp < cutoff
    THEN EvictFront(Tail(fr), cutoff)
    ELSE fr

\* VideoBuffer::add_frame, applied to frame f at time t on a buffer with retention dur
add_frame(fr, f, t, dur) == EvictFront(Append(fr, f), t - dur)

\* Variant: the upper end of the range is excluded
RECURSIVE extract_frames_Exclusive(_, _, _)
extract_frames_Exclusive(fr, start, end) ==
    IF fr = <<>> THEN <<>>
    ELSE IF Head(fr).timestamp >= start /\ Head(fr).timestamp < end
    THEN <<Head(fr)>> \o extract_frames_Exclusive(Tail(fr), start, end)
    ELSE extract_frames_Exclusive(Tail(fr), start, end)

\* VideoBuffer::extract_frames
RECURSIVE extract_frames(_, _, _)
extract_frames(fr, start, end) ==
    IF fr = <<>> THEN <<>>
    ELSE IF Head(fr).timestamp >= start /\ Head(fr).timestamp <= end
    THEN <<Head(fr)>> \o extract_frames(Tail(fr), start, end)
    ELSE extract_frames(Tail(fr), start, end)

\* VideoBuffer::new(camera_id, buffer_duration_secs)
NewBuffer(buffer_duration_secs) ==
    /\ now = 0
    /\ max_duration = buffer_duration_secs
    /\ frames = <<>>
    /\ extracted = <<>>
    /\ ex_window = <<0, 0>>
    /\ buf_op = "none"

BufferIdle == NewBuffer(BUFFER_DURATION_SECS)

BufferInit == \E d \in {TestBufferSecs, BUFFER_DURATION_SECS} : NewBuffer(d)

\* buffer.add_frame(frame) for a frame stamped ts, now or in the past
AddFrame(ts) ==
    /\ ts <= now
    /\ Len(frames) < MaxBuffered
    /\ frames' = add_frame(frames, FrameData(ts), now, max_duration)
    /\ buf_op' = "add"
    /\ UNCHANGED <<now, max_duration, extracted, ex_window>>

\* Time passes
Tick ==
    /\ now + TimeStep <= MaxTime
    /\ now' = now + TimeStep
    /\ buf_op' = "tick"
    /\ UNCHANGED <<max_duration, frames, extracted, ex_window>>

\* buffer.extract_frames(start, end)
Extract(start, end) ==
    /\ extracted' = extract_frames(frames, start, end)
    /\ ex_window' = <<start, end>>
    /\ buf_op' = "extract"
    /\ UNCHANGED <<now, max_duration, frames>>

(***************************************************************************)
(* VideoClipExtractor: the request channel and the worker run().  The      *)
(* file system under output_dir is the set of paths created so far; a      *)
(* file-system or encoder failure is a choice the environment makes.       *)
(***************************************************************************)
\* struct VideoClipRequest (camera_id is the extractor's own camera)
ClipRequest(id, timestamp, before, after, link) ==
    [id |-> id, timestamp |-> timestamp, duration_before_secs |-> before,
     duration_after_secs |-> after, pos_event_id |-> link.pos_event_id,
     alert_id |-> link.alert_id, priority |-> link.priority]

\* enum ClipPriority, by rank
PriorityRank(p) ==
    CASE p = "Low" -> 0 [] p = "Medium" -> 1 [] p = "High" -> 2 [] p = "Critical" -> 3

\* What a request is linked to and how urgent it is
Links ==
    {[pos_event_id |-> Some(1), alert_id |-> None, priority |-> "Low"],
     [pos_event_id |-> None, alert_id |-> Some(2), priority |-> "Critical"]}

\* <<duration_before_secs, duration_after_secs>>
ClipWindows == {<<0, 0>>, <<TimeStep, TimeStep>>}

\* `let start_time = ...; let end_time = ...` of process_request
start_time(request) == request.timestamp - request.duration_before_secs
end_time(request) == request.timestamp + request.duration_after_secs

\* The paths of generate_clip_path and generate_thumbnail_path.  All requests
\* modelled fall on the same day, so there is one clip directory.  A path is
\* a pair of its kind and the id of the request it belongs to (0 for the
\* directories).
OutputDir == <<"output_dir", 0>>
ClipDir == <<"clip_dir", 0>>
ThumbDir == <<"thumb_dir", 0>>
ClipPath(request) == <<"mp4", request.id>>
ThumbnailPath(request) == <<"jpg", request.id>>

\* Variant: the clip is reported to start at the request's timestamp
VideoClip_NoLead(request, thumbnail) ==
    [id |-> request.id,
     start_time |-> request.timestamp,
     end_time |-> end_time(request),
     file_path |-> ClipPath(request), thumbnail_path |-> thumbnail,
     pos_event_id |-> request.pos_event_id, alert_id |-> request.alert_id]

\* The VideoClip that process_request returns (size_bytes, duration_secs and
\* created_at are left out)
VideoClip(request, thumbnail) ==
    [id |-> request.id,
     start_time |-> start_time(request),
     end_time |-> end_time(request),
     file_path |-> ClipPath(request), thumbnail_path |-> thumbnail,
     pos_event_id |-> request.pos_event_id, alert_id |-> request.alert_id]

\* Variant: the request with the highest priority is received first
NextIndex_Priority(q) ==
    CHOOSE k \in 1..Len(q) :
        \A m \in 1..Len(q) :
            \/ PriorityRank(q[m].priority) < PriorityRank(q[k].priority)
            \/ PriorityRank(q[m].priority) = PriorityRank(q[k].priority) /\ k <= m

\* request_rx.recv(): the position in the channel of the request received
NextIndex(q) == 1

\* Variant: an error ends the loop
AfterError_Stop == "stopped"

\* The arm `Err(e) => { error!(...) }` of run(): the loop goes on
AfterError == "recv"

\* Variant: no check for an empty frame list
AfterExtract_NoBail(extracted_frames) == "paths"

\* `if frames.is_empty() { anyhow::bail!(...) }`
AfterExtract(extracted_frames) ==
    IF extracted_frames = <<>> THEN "bail" ELSE "paths"

\* VideoClipExtractor::new
ClipIdle ==
    /\ queue = <<>>
    /\ next_req = 1
    /\ worker = "start"
    /\ current = <<>>
    /\ clip_frames = <<>>
    /\ buffered = <<>>
    /\ fs = {}
    /\ started = <<>>
    /\ done = <<>>
    /\ last_result = <<>>
    /\ buf_lock = "free"

\* sender.send(request).await for a request about the present moment; a send
\* to a stopped worker returns an error and changes nothing
Enqueue(request) ==
    /\ worker # "stopped"
    /\ next_req <= MaxRequests
    /\ Len(queue) < Min(MaxQueue, ChannelCapacity)
    /\ request.id = next_req
    /\ request.timestamp = now
    /\ queue' = Append(queue, request)
    /\ next_req' = next_req + 1
    /\ UNCHANGED <<worker, current, clip_frames, buffered, fs, started, done,
                   last_result, buf_lock>>

\* The head of run(): create_dir_all(output_dir), which may fail
StartRun ==
    /\ worker = "start"
    /\ \/ worker' = "recv" /\ fs' = fs \cup {OutputDir}
       \/ worker' = "stopped" /\ fs' = fs
    /\ UNCHANGED <<queue, next_req, current, clip_frames, buffered, started, done,
                   last_result, buf_lock>>

\* `while let Some(request) = self.request_rx.recv().await`
Recv ==
    /\ worker = "recv"
    /\ queue # <<>>
    /\ \E k \in {NextIndex(queue)} :
          /\ current' = <<queue[k]>>
          /\ started' = Append(started, queue[k].id)
          /\ queue' = SubSeq(queue, 1, k - 1) \o SubSeq(queue, k + 1, Len(queue))
    /\ worker' = "lock"
    /\ UNCHANGED <<next_req, clip_frames, buffered, fs, done, last_result, buf_lock>>

\* process_request returns: the match in run() logs the result
Return(outcome, clip, files) ==
    /\ done' = Append(done, [id |-> current[1].id, outcome |-> outcome])
    /\ last_result' = <<[request |-> current[1], outcome |-> outcome, clip |-> clip,
                          buffered |-> buffered]>>
    /\ worker' = IF outcome = "ok" THEN "recv" ELSE AfterError
    /\ fs' = files
    /\ current' = <<>>
    /\ clip_frames' = <<>>
    /\ buffered' = <<>>
    /\ UNCHANGED <<queue, next_req, started, buf_lock>>

\* Variant: the guard lives on after extract_frames has returned
GuardAfterExtract_Held == "worker"

\* The MutexGuard `frames` of extract_frames is a local of that function: it
\* is dropped when extract_frames returns
GuardAfterExtract == "free"

\* process_request up to `self.frames.lock()` inside extract_frames: the
\* worker waits until the Mutex is free and takes it
LockStep ==
    /\ worker = "lock"
    /\ buf_lock = "free"
    /\ buf_lock' = "worker"
    /\ worker' = "extract"
    /\ UNCHANGED <<queue, next_req, current, clip_frames, buffered, fs, started, done,
                   last_result>>

\* The rest of extract_frames, under the lock, and process_request up to
\* `if frames.is_empty()`
ExtractStep ==
    /\ worker = "extract"
    /\ buf_lock' = GuardAfterExtract
    /\ Extract(start_time(current[1]), end_time(current[1]))
    /\ IF AfterExtract(extracted') = "bail"
       THEN /\ done' = Append(done, [id |-> current[1].id, outcome |-> "no_frames"])
            /\ last_result' = <<[request |-> current[1], outcome |-> "no_frames",
                                 clip |-> <<>>, buffered |-> frames]>>
            /\ worker' = AfterError
            /\ current' = <<>>
            /\ UNCHANGED <<clip_frames, buffered, fs, queue, next_req, started>>
       ELSE /\ clip_frames' = extracted'
            /\ buffered' = frames
            /\ worker' = "paths"
            /\ UNCHANGED <<queue, next_req, current, fs, started, done, last_result>>

\* generate_clip_path and generate_thumbnail_path: either create_dir_all may
\* fail, the first with outcome "fs_error", the second (the thumbnail
\* directory) with outcome "thumb_dir_error"
PathsStep ==
    /\ worker = "paths"
    /\ \/ Return("fs_error", <<>>, fs)
       \/ Return("thumb_dir_error", <<>>, fs \cup {ClipDir})
       \/ /\ fs' = fs \cup {ClipDir, ThumbDir}
          /\ worker' = "save"
          /\ UNCHANGED <<queue, next_req, current, clip_frames, buffered, started,
                         done, last_result, buf_lock>>

\* save_clip: nothing is written for an empty frame list; the encoder may
\* fail before or after the file has been created
SaveStep ==
    /\ worker = "save"
    /\ \/ /\ clip_frames # <<>>
          /\ \/ Return("encode_error", <<>>, fs)
             \/ Return("encode_error", <<>>, fs \cup {ClipPath(current[1])})
       \/ /\ fs' = IF clip_frames = <<>> THEN fs ELSE fs \cup {ClipPath(current[1])}
          /\ worker' = "thumb"
          /\ UNCHANGED <<queue, next_req, current, clip_frames, buffered, started,
                         done, last_result, buf_lock>>

\* The thumbnail of the middle frame, whose failure is dropped by .ok(), and
\* the Ok(VideoClip { .. })
ThumbStep ==
    /\ worker = "thumb"
    /\ IF clip_frames = <<>>
       THEN Return("ok", <<VideoClip(current[1], None)>>, fs)
       ELSE \E files \in {fs, fs \cup {ThumbnailPath(current[1])}} :
               Return("ok", <<VideoClip(current[1], Some(ThumbnailPath(current[1])))>>,
                      files)

(***************************************************************************)
(* RiskAnalyzer.  The score is an f32; the model keeps an f32 value v as   *)
(* the integer v * 2^27, which is exact for every f32 in [2^-4, 2), and    *)
(* rounds each sum to the nearest f32, ties to even, as the hardware does. *)
(***************************************************************************)
\* The f32 nearest to tenths / 10: what the literals 0.1 ... 0.7 and 1.0
\* denote
F32Lit(tenths) ==
    CASE tenths = 0 -> 0
      [] tenths = 1 -> 13421773
      [] tenths = 2 -> 26843546
      [] tenths = 3 -> 40265320
      [] tenths = 4 -> 53687092
      [] tenths = 5 -> 67108864
      [] tenths = 6 -> 80530640
      [] tenths = 7 -> 93952408
      [] tenths = 8 -> 107374184
      [] tenths = 9 -> 120795952
      [] tenths = 10 -> 134217728

\* The distance between neighbouring f32 values around n (n < 2^28)
Ulp(n) ==
    IF n < 2^24 THEN 1
    ELSE IF n < 2^25 THEN 2
    ELSE IF n < 2^26 THEN 4
    ELSE IF n < 2^27 THEN 8
    ELSE 16

\* Round to nearest f32, ties to even
RoundF32(n) ==
    LET u == Ulp(n)
        q == n \div u
        r == n % u
    IN  IF 2 * r < u THEN q * u
        ELSE IF 2 * r > u THEN (q + 1) * u
        ELSE IF q % 2 = 0 THEN q * u
        ELSE (q + 1) * u

\* `score += b` on f32
F32Add(a, b) == RoundF32(a + b)

POSEventTypes ==
    {"DiscountApplied", "VoidTransaction", "PaymentCleared", "RefundIssued",
     "PriceOverride", "QuantityChanged", "HighValueTransaction", "NoSaleOpened",
     "CashDrawerOpened", "SuspiciousReturn"}

\* struct POSEvent, the fields the analyzer and the phase-5 handler read:
\* amount and discount_percent are Option<f64> holding whole numbers,
\* repeat_offender says whether the metadata has that key, hour is
\* timestamp.hour()
POSEvent(id, event_type, amount, discount_percent, repeat_offender, hour) ==
    [id |-> id, event_type |-> event_type, amount |-> amount,
     discount_percent |-> discount_percent, repeat_offender |-> repeat_offender,
     hour |-> hour]

\* Variant: the other types start at 0.3
BaseTenths_HighDefault(event_type) ==
    CASE event_type = "VoidTransaction" -> 4
      [] event_type = "RefundIssued" -> 5
      [] event_type = "PriceOverride" -> 3
      [] event_type = "NoSaleOpened" -> 6
      [] event_type = "CashDrawerOpened" -> 3
      [] event_type = "SuspiciousReturn" -> 7
      [] event_type = "DiscountApplied" -> 2
      [] OTHER -> 3

\* "Base risk by event type", in tenths
BaseTenths(event_type) ==
    CASE event_type = "VoidTransaction" -> 4
      [] event_type = "RefundIssued" -> 5
      [] event_type = "PriceOverride" -> 3
      [] event_type = "NoSaleOpened" -> 6
      [] event_type = "CashDrawerOpened" -> 3
      [] event_type = "SuspiciousReturn" -> 7
      [] event_type = "DiscountApplied" -> 2
      [] OTHER -> 1

\* The score before `score.min(1.0)`
RawScore(event) ==
    LET s1 == F32Add(0, F32Lit(BaseTenths(event.event_type)))
        s2 == IF event.amount # None /\ Unwrap(event.amount) > high_value_threshold
              THEN F32Add(s1, F32Lit(2)) ELSE s1
        s3 == IF event.discount_percent # None
                  /\ Unwrap(event.discount_percent) > discount_threshold
              THEN F32Add(s2, F32Lit(3)) ELSE s2
        s4 == IF event.repeat_offender THEN F32Add(s3, F32Lit(3)) ELSE s3
    IN  IF event.hour < 6 \/ event.hour > 22 THEN F32Add(s4, F32Lit(1)) ELSE s4

\* Variant: no cap at 1.0
calculate_risk_score_NoCap(event) == RawScore(event)

\* RiskAnalyzer::calculate_risk_score
calculate_risk_score(event) == Min(RawScore(event), F32Lit(10))

\* Variant: the cutoff is not strict
should_alert_AtLeast(event) ==
    \/ calculate_risk_score(event) >= F32Lit(6)
    \/ event.event_type \in {"VoidTransaction", "RefundIssued", "SuspiciousReturn",
                              "NoSaleOpened"}

\* RiskAnalyzer::should_alert
should_alert(event) ==
    \/ calculate_risk_score(event) > F32Lit(6)
    \/ event.event_type \in {"VoidTransaction", "RefundIssued", "SuspiciousReturn",
                              "NoSaleOpened"}

\* The events the analyzer is applied to: every type, no amount or one
\* below, at or above the high-value threshold, no discount or one at or
\* above the discount threshold, with and without the repeat_offender key,
\* at every hour of the day
Amounts == {None, Some(50), Some(high_value_threshold), Some(1500)}
Discounts == {None, Some(discount_threshold), Some(40)}
Hours == 0..23
RiskEvents ==
    {POSEvent(1, ty, a, d, ro, h) :
        ty \in POSEventTypes, a \in Amounts, d \in Discounts, ro \in BOOLEAN,
        h \in Hours}

\* No RiskAnalyzer call under way
RiskIdle ==
    /\ risk_event = POSEvent(1, "PaymentCleared", None, None, FALSE, 12)
    /\ risk = <<>>

RiskInputs ==
    /\ risk_event \in RiskEvents
    /\ risk = <<>>

Analyze ==
    /\ risk = <<>>
    /\ risk' = <<[score |-> calculate_risk_score(risk_event),
                  alert |-> should_alert(risk_event)]>>
    /\ UNCHANGED risk_event

(***************************************************************************)
(* Phase 5: the POS event handler task of spawn_pos_handler.  Its clip     *)
(* sender is the one add_camera returned; the VideoClipExtractor that owns *)
(* the receiving end sits in the manager's Vec and its run() is never      *)
(* called, so nothing takes requests out of p5_channel.                    *)
(***************************************************************************)
\* The events handed to the handler: <<event_type, amount>>, scoring 0.1,
\* 0.3, 0.4 and 0.6
PosKinds ==
    {<<"PaymentCleared", Some(50)>>, <<"PriceOverride", None>>,
     <<"VoidTransaction", None>>, <<"VoidTransaction", Some(1500)>>}

\* An event of the POS system: ids are distinct, the timestamp is noon of
\* day id (hour is timestamp.hour())
PosEventAt(id, kind) ==
    [id |-> id, event_type |-> kind[1], amount |-> kind[2], discount_percent |-> None,
     repeat_offender |-> FALSE, hour |-> 12, timestamp |-> <<id, 12>>]

\* `if risk_score >= 0.4`
RaisesAlert(event) == calculate_risk_score(event) >= F32Lit(4)

\* The VideoClipRequest the handler builds; request_id and alert_id are the
\* two Uuid::new_v4() values
AlertClipRequest(event, alert_id, request_id) ==
    ClipRequest(request_id, event.timestamp, 30, 30,
                [pos_event_id |-> Some(event.id), alert_id |-> Some(alert_id),
                 priority |-> "High"])

\* The handler task right after it was spawned; enable_video_clips decides
\* whether it has a sender
PosStart(enable_video_clips) ==
    /\ p5_clip_sender = enable_video_clips
    /\ p5_channel = <<>>
    /\ p5_pc = "recv"
    /\ p5_event = <<>>
    /\ p5_request = None
    /\ p5_uuid = 1
    /\ p5_metrics = [pos_events |-> 0, alerts_triggered |-> 0, clips_generated |-> 0]

PosIdle == PosStart(TRUE)

\* One iteration of `while let Some(event) = receiver.recv().await`, up to
\* the point where it waits again: in recv() for the next event, or in
\* sender.send(request) for room in the channel.  The two database calls
\* only log their errors.
Handle(event) ==
    /\ p5_pc = "recv"
    /\ p5_metrics.alerts_triggered <= ChannelCapacity
    /\ ~RaisesAlert(event) =>
          p5_metrics.pos_events - p5_metrics.alerts_triggered < MaxQuiet
    /\ p5_event' = <<event>>
    /\ IF ~RaisesAlert(event)
       THEN /\ p5_metrics' = [p5_metrics EXCEPT !.pos_events = @ + 1]
            /\ UNCHANGED <<p5_channel, p5_pc, p5_request, p5_uuid>>
       ELSE IF ~p5_clip_sender
       THEN /\ p5_metrics' = [p5_metrics EXCEPT !.pos_events = @ + 1,
                                                !.alerts_triggered = @ + 1]
            /\ p5_uuid' = p5_uuid + 1
            /\ UNCHANGED <<p5_channel, p5_pc, p5_request>>
       ELSE \E request \in {AlertClipRequest(event, p5_uuid, p5_uuid + 1)} :
            /\ p5_uuid' = p5_uuid + 2
            /\ p5_request' = Some(request)
            /\ IF Len(p5_channel) < ChannelCapacity
               THEN /\ p5_channel' = Append(p5_channel, request)
                    /\ p5_metrics' = [p5_metrics EXCEPT !.pos_events = @ + 1,
                                                        !.alerts_triggered = @ + 1,
                                                        !.clips_generated = @ + 1]
                    /\ UNCHANGED p5_pc
               ELSE /\ p5_pc' = "send"
                    /\ p5_metrics' = [p5_metrics EXCEPT !.pos_events = @ + 1,
                                                        !.alerts_triggered = @ + 1]
                    /\ UNCHANGED p5_channel
    /\ UNCHANGED p5_clip_sender

(***************************************************************************)
(* Phase 6: the new_sample callback spawns one task per frame; the task    *)
(* awaits the inference, then takes the tracker's write lock for update(), *)
(* then the zone counter's for update().                                   *)
(***************************************************************************)
\* What the ML service answers for a frame
PipeScenes == {<<BoxA>>, <<BoxA2>>, <<Det(4, 6, 4, 4)>>}

PipeIdle ==
    /\ p6_frame_count = 0
    /\ p6_tasks = <<>>
    /\ p6_tracker_order = <<>>
    /\ p6_zone_order = <<>>
    /\ p6_shutdown = FALSE

\* new_sample: spawn the frame's task, count the frame
NewSample(detections) ==
    /\ ~p6_shutdown
    /\ p6_frame_count < MaxPipeFrames
    /\ p6_tasks' = Append(p6_tasks, [pc |-> "detect", detections |-> detections,
                                     tracked |-> <<>>])
    /\ p6_frame_count' = p6_frame_count + 1
    /\ UNCHANGED <<p6_tracker_order, p6_zone_order, p6_shutdown>>

\* detect_people returned Err: the task only logs
InferenceFails(n) ==
    /\ p6_tasks[n].pc = "detect"
    /\ p6_tasks' = [p6_tasks EXCEPT ![n].pc = "failed"]
    /\ UNCHANGED <<p6_frame_count, p6_tracker_order, p6_zone_order, p6_shutdown>>

\* detect_people returned Ok(detections); tracker.write().await;
\* tracker.update(detections); drop(tracker)
TrackStep(n) ==
    /\ p6_tasks[n].pc = "detect"
    /\ Update(p6_tasks[n].detections)
    /\ p6_tasks' = [p6_tasks EXCEPT ![n].pc = "zones", ![n].tracked = ret']
    /\ p6_tracker_order' = Append(p6_tracker_order, n)
    /\ UNCHANGED <<p6_frame_count, p6_zone_order, p6_shutdown>>

\* zone_counter.write().await; zone_counter.update(&tracked);
\* drop(zone_counter); the metrics
ZoneCounterStep(n) ==
    /\ p6_tasks[n].pc = "zones"
    /\ ZoneUpdate(p6_tasks[n].tracked)
    /\ p6_tasks' = [p6_tasks EXCEPT ![n].pc = "done"]
    /\ p6_zone_order' = Append(p6_zone_order, n)
    /\ UNCHANGED <<p6_frame_count, p6_tracker_order, p6_shutdown>>

\* The shutdown flag is set: new_sample returns at once from now on
Shutdown ==
    /\ ~p6_shutdown
    /\ p6_shutdown' = TRUE
    /\ UNCHANGED <<p6_frame_count, p6_tasks, p6_tracker_order, p6_zone_order>>

(***************************************************************************)
(* The VideoBuffer shared by an ingestion thread (add_frame) and an        *)
(* extraction thread (extract_frames), statement by statement.             *)
(***************************************************************************)
\* Variant: lock() hands out a guard while another one is alive
MutexFree_Shared == TRUE

\* `self.frames.lock().unwrap()` returns once no other guard is alive
MutexFree == mx_holder = "none"

MutexIdle ==
    /\ mx_holder = "none"
    /\ mx_ingest = [pc |-> "idle", ts |-> 0]
    /\ mx_extract = "idle"
    /\ mx_committed = {<<>>}

\* add_frame(frame) for a frame stamped now: `let mut frames = self.frames.lock().unwrap()`
IngestLock ==
    /\ mx_ingest.pc = "idle"
    /\ MutexFree
    /\ Len(frames) < MaxBuffered
    /\ IF frames = <<>> THEN TRUE ELSE frames[Len(frames)].timestamp < now
    /\ mx_ingest' = [pc |-> "locked", ts |-> now]
    /\ mx_holder' = "ingest"
    /\ UNCHANGED <<mx_extract, mx_committed, bufferVars>>

\* `frames.push_back(frame.clone())`
IngestAppend ==
    /\ mx_ingest.pc = "locked"
    /\ frames' = Append(frames, FrameData(mx_ingest.ts))
    /\ mx_ingest' = [mx_ingest EXCEPT !.pc = "appended"]
    /\ UNCHANGED <<mx_holder, mx_extract, mx_committed, now, max_duration, extracted,
                   ex_window, buf_op>>

\* The eviction loop with cutoff = Utc::now() - max_duration, and the return,
\* which drops the guard
IngestEvict ==
    /\ mx_ingest.pc = "appended"
    /\ frames' = EvictFront(frames, now - max_duration)
    /\ mx_ingest' = [pc |-> "idle", ts |-> 0]
    /\ mx_holder' = "none"
    /\ mx_committed' = mx_committed \cup {frames'}
    /\ buf_op' = "add"
    /\ UNCHANGED <<mx_extract, now, max_duration, extracted, ex_window>>

\* extract_frames(start, end): `let frames = self.frames.lock().unwrap()`
ExtractLock(start, end) ==
    /\ mx_extract = "idle"
    /\ MutexFree
    /\ mx_extract' = "locked"
    /\ mx_holder' = "extract"
    /\ ex_window' = <<start, end>>
    /\ UNCHANGED <<mx_ingest, mx_committed, now, max_duration, frames, extracted, buf_op>>

\* The filter, the clone and the return, which drops the guard
ExtractReturn ==
    /\ mx_extract = "locked"
    /\ extracted' = extract_frames(frames, ex_window[1], ex_window[2])
    /\ mx_extract' = "idle"
    /\ mx_holder' = "none"
    /\ buf_op' = "extract"
    /\ UNCHANGED <<mx_ingest, mx_committed, now, max_duration, frames, ex_window>>

(***************************************************************************)
(* VideoClipManager: the extractors it registers and request_clip.  A      *)
(* caller may send on the sender add_camera returned; no worker is started *)
(* by the manager.                                                         *)
(***************************************************************************)
CameraIds == {"camera_001", "camera_002"}

\* VideoClipManager::new
ManagerIdle ==
    /\ mg_extractors = <<>>
    /\ mg_uuid = 1
    /\ mg_request = None
    /\ mg_returned = <<>>

\* add_camera(camera_id, output_dir): a new extractor with an empty channel
\* is pushed
add_camera(camera_id) ==
    /\ Len(mg_extractors) < MaxCameras
    /\ mg_extractors' = Append(mg_extractors, [camera_id |-> camera_id, channel |-> <<>>])
    /\ UNCHANGED <<mg_uuid, mg_request, mg_returned>>

\* sender.send(request) by the holder of the sender of extractor k
SenderSend(k, timestamp, w, link) ==
    /\ Len(mg_extractors[k].channel) < Min(MaxQueue, ChannelCapacity)
    /\ mg_extractors' =
          [mg_extractors EXCEPT ![k].channel =
              Append(@, ClipRequest(mg_uuid, timestamp, w[1], w[2], link))]
    /\ mg_uuid' = mg_uuid + 1
    /\ UNCHANGED <<mg_request, mg_returned>>

\* `priority: if alert_id.is_some() { High } else { Medium }`
ManagerPriority(alert_id) == IF alert_id # None THEN "High" ELSE "Medium"

\* request_clip(camera_id, timestamp, before_secs, after_secs, pos_event_id,
\* alert_id): builds the request, logs it and returns Ok(request.id)
request_clip(camera_id, timestamp, before_secs, after_secs, pos_event_id, alert_id) ==
    /\ Len(mg_returned) < MaxManagerCalls
    /\ mg_request' = Some([camera_id |-> camera_id,
                           request |-> ClipRequest(mg_uuid, timestamp, before_secs,
                                                   after_secs,
                                                   [pos_event_id |-> pos_event_id,
                                                    alert_id |-> alert_id,
                                                    priority |-> ManagerPriority(alert_id)])])
    /\ mg_uuid' = mg_uuid + 1
    /\ mg_returned' = Append(mg_returned, <<mg_uuid, camera_id>>)
    /\ UNCHANGED mg_extractors

(***************************************************************************)
(* The senders of the extractor's channel.  recv() returns None once the   *)
(* channel is empty and every Sender is dropped: the clones handed out by  *)
(* get_sender, and the field request_tx of the extractor, which run(self)  *)
(* owns until it returns.                                                  *)
(***************************************************************************)
\* `request_tx: mpsc::Sender<VideoClipRequest>` of the running extractor
OwnSenders == 1

\* One sender was taken with get_sender before run(self) consumed the extractor
SendersIdle == cl_senders = 1

\* sender.clone()
CloneSender ==
    /\ cl_senders > 0
    /\ cl_senders < MaxSenders
    /\ cl_senders' = cl_senders + 1

\* drop(sender)
DropSender ==
    /\ cl_senders > 0
    /\ cl_senders' = cl_senders - 1

\* `while let Some(request) = self.request_rx.recv().await`, both outcomes:
\* Some(request), or None, which ends the loop and makes run() return Ok(())
RecvOrEnd ==
    /\ worker = "recv"
    /\ IF queue # <<>>
       THEN Recv
       ELSE /\ cl_senders + OwnSenders = 0
            /\ worker' = "returned"
            /\ UNCHANGED <<queue, next_req, current, clip_frames, buffered, fs, started,
                           done, last_result, buf_lock>>
    /\ UNCHANGED cl_senders

(***************************************************************************)
(* POSIntegration: the MQTT event loop.  A payload is the bytes of a       *)
(* Publish packet: either the JSON of a POSEvent or bytes serde_json       *)
(* rejects.                                                                *)
(***************************************************************************)
\* `if events.len() > 1000 { events.drain(0..100); }`
StoredEventsLimit == 1000
DrainCount == 100

\* The payloads published on the subscribed topics
MqttPayloads ==
    {[well_formed |-> wf, event |-> PosEventAt(1, kind)] :
        wf \in BOOLEAN, kind \in PosKinds}

\* serde_json::from_slice::<POSEvent>(payload): Some(event), or None for Err
from_slice(payload, id) ==
    IF payload.well_formed
    THEN Some([payload.event EXCEPT !.id = id, !.timestamp = <<id, 12>>])
    ELSE None

\* POSIntegration::new: nothing stored, run() about to poll
MqttIdle ==
    /\ mq_pc = "poll"
    /\ mq_events = <<>>
    /\ mq_alerts = <<>>
    /\ mq_polls = 0
    /\ mq_malformed = FALSE
    /\ mq_reconnects = 0

\* events.push(event.clone()) and the limit on the stored events
StoreEvent(events, event) ==
    LET pushed == Append(events, event)
    IN  IF Len(pushed) > StoredEventsLimit
        THEN SubSeq(pushed, DrainCount + 1, Len(pushed))
        ELSE pushed

\* poll() yields Ok(Event::Incoming(Packet::Publish(publish))):
\* handle_mqtt_event calls handle_pos_message, whose `?` on the parse error
\* returns Err, which `?` in handle_mqtt_event and `?` in run() pass on
PollPublish(payload) ==
    /\ mq_pc = "poll"
    /\ mq_polls < MaxPolls
    /\ UNCHANGED mq_reconnects
    /\ mq_polls' = mq_polls + 1
    /\ \E parsed \in {from_slice(payload, mq_polls + 1)} :
        IF parsed = None
        THEN /\ mq_pc' = "returned"
             /\ mq_malformed' = TRUE
             /\ UNCHANGED <<mq_events, mq_alerts>>
        ELSE /\ mq_alerts' = IF should_alert(Unwrap(parsed))
                             THEN Append(mq_alerts, Unwrap(parsed).id)
                             ELSE mq_alerts
             /\ mq_events' = StoreEvent(mq_events, Unwrap(parsed))
             /\ UNCHANGED <<mq_pc, mq_malformed>>

\* poll() yields ConnAck, SubAck, another incoming packet or an outgoing one
PollOther ==
    /\ mq_pc = "poll"
    /\ mq_polls < MaxPolls
    /\ mq_polls' = mq_polls + 1
    /\ UNCHANGED <<mq_pc, mq_events, mq_alerts, mq_malformed, mq_reconnects>>

\* poll() yields Err: logged, sleep 5 s, poll again
PollError ==
    /\ mq_pc = "poll"
    /\ mq_polls < MaxPolls
    /\ mq_polls' = mq_polls + 1
    /\ mq_reconnects' = mq_reconnects + 1
    /\ UNCHANGED <<mq_pc, mq_events, mq_alerts, mq_malformed>>

Init ==
    /\ TrackerInit /\ ZoneInit /\ PointIdle /\ IouIdle /\ BufferIdle /\ ClipIdle
    /\ RiskIdle /\ PosIdle /\ PipeIdle
    /\ MutexIdle
    /\ ManagerIdle
    /\ SendersIdle
    /\ MqttIdle

Next ==
    \E detections \in DetLists :
        frame < MaxFrames /\ Update(detections)
                          /\ UNCHANGED <<zoneVars, pointVars, iouVars, bufferVars, clipVars, riskVars, posVars, pipeVars, mutexVars, managerVars, senderVars, mqttVars>>

Spec == Init /\ [][Next]_vars

AgingNext ==
    \E detections \in AgingLists :
        /\ Update(detections)
        /\ WithinAgingBounds'
        /\ UNCHANGED <<zoneVars, pointVars, iouVars, bufferVars, clipVars, riskVars, posVars, pipeVars, mutexVars, managerVars, senderVars, mqttVars>>

SpecAging == Init /\ [][AgingNext]_vars

ZoneNext ==
    \E tracked_detections \in TrackedLists :
        ZoneUpdate(tracked_detections) /\ UNCHANGED <<trackerVars, pointVars, iouVars, bufferVars, clipVars, riskVars, posVars, pipeVars, mutexVars, managerVars, senderVars, mqttVars>>

SpecZone == Init /\ [][ZoneNext]_vars

AnyZoneStart == TrackerInit /\ AnyZoneInit /\ PointIdle /\ IouIdle /\ BufferIdle /\ ClipIdle /\ RiskIdle /\ PosIdle /\ PipeIdle /\ MutexIdle /\ ManagerIdle /\ SendersIdle /\ MqttIdle

SpecAnyZone == AnyZoneStart /\ [][ZoneNext]_vars

PointInit == TrackerInit /\ ZoneInit /\ PointInputs /\ IouIdle /\ BufferIdle /\ ClipIdle /\ RiskIdle /\ PosIdle /\ PipeIdle /\ MutexIdle /\ ManagerIdle /\ SendersIdle /\ MqttIdle

PointNext == Contains /\ UNCHANGED <<trackerVars, zoneVars, iouVars, bufferVars, clipVars, riskVars, posVars, pipeVars, mutexVars, managerVars, senderVars, mqttVars>>

SpecPoint == PointInit /\ [][PointNext]_vars

IouInit == TrackerInit /\ ZoneInit /\ PointIdle /\ IouInputs /\ BufferIdle /\ ClipIdle /\ RiskIdle /\ PosIdle /\ PipeIdle /\ MutexIdle /\ ManagerIdle /\ SendersIdle /\ MqttIdle

IouNext == Calculate /\ UNCHANGED <<trackerVars, zoneVars, pointVars, bufferVars, clipVars, riskVars, posVars, pipeVars, mutexVars, managerVars, senderVars, mqttVars>>

SpecIou == IouInit /\ [][IouNext]_vars

BufferStart == TrackerInit /\ ZoneInit /\ PointIdle /\ IouIdle /\ BufferInit /\ ClipIdle /\ RiskIdle /\ PosIdle /\ PipeIdle /\ MutexIdle /\ ManagerIdle /\ SendersIdle /\ MqttIdle

BufferNext ==
    /\ \/ \E ts \in Times : AddFrame(ts)
       \/ Tick
       \/ \E start, end \in Times : Extract(start, end)
    /\ UNCHANGED <<trackerVars, zoneVars, pointVars, iouVars, clipVars, riskVars, posVars, pipeVars, mutexVars, managerVars, senderVars, mqttVars>>

SpecBuffer == BufferStart /\ [][BufferNext]_vars

\* The extractor with its camera: the capture callback appends one frame per
\* TimeStep, stamped Utc::now(), while requests are sent and worked off
ClipNext ==
    /\ \/ /\ IF frames = <<>> THEN TRUE ELSE frames[Len(frames)].timestamp < now
          /\ buf_lock = "free"
          /\ AddFrame(now)
          /\ UNCHANGED clipVars
       \/ Tick /\ UNCHANGED clipVars
       \/ /\ \E w \in ClipWindows, link \in Links :
                Enqueue(ClipRequest(next_req, now, w[1], w[2], link))
          /\ UNCHANGED bufferVars
       \/ StartRun /\ UNCHANGED bufferVars
       \/ Recv /\ UNCHANGED bufferVars
       \/ LockStep /\ UNCHANGED bufferVars
       \/ ExtractStep
       \/ PathsStep /\ UNCHANGED bufferVars
       \/ SaveStep /\ UNCHANGED bufferVars
       \/ ThumbStep /\ UNCHANGED bufferVars
    /\ UNCHANGED <<trackerVars, zoneVars, pointVars, iouVars, riskVars, posVars, pipeVars, mutexVars, managerVars, senderVars, mqttVars>>

SpecClip == Init /\ [][ClipNext]_vars

RiskInit ==
    /\ TrackerInit /\ ZoneInit /\ PointIdle /\ IouIdle /\ BufferIdle /\ ClipIdle
    /\ RiskInputs /\ PosIdle /\ PipeIdle
    /\ MutexIdle
    /\ ManagerIdle
    /\ SendersIdle
    /\ MqttIdle

RiskNext ==
    Analyze /\ UNCHANGED <<trackerVars, zoneVars, pointVars, iouVars, bufferVars, clipVars,
                            posVars, pipeVars, mutexVars, managerVars, senderVars, mqttVars>>

SpecRisk == RiskInit /\ [][RiskNext]_vars

PosInit ==
    /\ TrackerInit /\ ZoneInit /\ PointIdle /\ IouIdle /\ BufferIdle /\ ClipIdle
    /\ RiskIdle /\ PipeIdle
    /\ \E enable_video_clips \in BOOLEAN : PosStart(enable_video_clips)
    /\ MutexIdle
    /\ ManagerIdle
    /\ SendersIdle
    /\ MqttIdle

\* The events arrive with ids of their own: here the k-th event at or above
\* the alert cutoff has id 2k, the k-th below it has id 2k - 1
PosNext ==
    /\ \E kind \in PosKinds :
          \E id \in {IF RaisesAlert(PosEventAt(0, kind))
                      THEN 2 * (p5_metrics.alerts_triggered + 1)
                      ELSE 2 * (p5_metrics.pos_events - p5_metrics.alerts_triggered) + 1} :
              Handle(PosEventAt(id, kind))
    /\ UNCHANGED <<trackerVars, zoneVars, pointVars, iouVars, bufferVars, clipVars,
                   riskVars, pipeVars, mutexVars, managerVars, senderVars, mqttVars>>

SpecPos == PosInit /\ [][PosNext]_vars

\* The tasks of the frames run interleaved: each step is one task's
PipeNext ==
    /\ \/ \E detections \in PipeScenes : NewSample(detections) /\ UNCHANGED <<trackerVars, zoneVars>>
       \/ \E n \in 1..Len(p6_tasks) : InferenceFails(n) /\ UNCHANGED <<trackerVars, zoneVars>>
       \/ \E n \in 1..Len(p6_tasks) : TrackStep(n) /\ UNCHANGED zoneVars
       \/ \E n \in 1..Len(p6_tasks) : ZoneCounterStep(n) /\ UNCHANGED trackerVars
       \/ Shutdown /\ UNCHANGED <<trackerVars, zoneVars>>
    /\ UNCHANGED <<pointVars, iouVars, bufferVars, clipVars, riskVars, posVars, mutexVars, managerVars, senderVars, mqttVars>>

SpecPipe == Init /\ [][PipeNext]_vars

\* An ingestion thread and an extraction thread on one buffer, any interleaving
MutexNext ==
    /\ \/ Tick /\ UNCHANGED mutexVars
       \/ IngestLock
       \/ IngestAppend
       \/ IngestEvict
       \/ \E start, end \in Times : start <= end /\ ExtractLock(start, end)
       \/ ExtractReturn
    /\ UNCHANGED <<trackerVars, zoneVars, pointVars, iouVars, clipVars, riskVars, posVars,
                   pipeVars, managerVars, senderVars, mqttVars>>

SpecMutex == Init /\ [][MutexNext]_vars

\* Phase 5 with its scheduling: the runtime polls the spawned handler task,
\* so an event that has arrived is eventually handled.  No task of phase 5
\* polls the receiving end of the clip channel.
SpecPosLive == PosInit /\ [][PosNext]_vars /\ WF_vars(PosNext)

ManagerNext ==
    /\ \/ \E camera_id \in CameraIds : add_camera(camera_id)
       \/ \E k \in 1..Len(mg_extractors) :
             SenderSend(k, 0, <<TimeStep, TimeStep>>,
                        [pos_event_id |-> Some(1), alert_id |-> None, priority |-> "Low"])
       \/ \E camera_id \in CameraIds, alert_id \in {None, Some(1)} :
             request_clip(camera_id, 0, TimeStep, TimeStep, Some(1), alert_id)
    /\ UNCHANGED <<trackerVars, zoneVars, pointVars, iouVars, bufferVars, clipVars,
                   riskVars, posVars, pipeVars, mutexVars, senderVars, mqttVars>>

SpecManager == Init /\ [][ManagerNext]_vars

\* The steps of the worker task run()
WorkerStep ==
    /\ \/ StartRun /\ UNCHANGED <<bufferVars, cl_senders>>
       \/ RecvOrEnd /\ UNCHANGED bufferVars
       \/ LockStep /\ UNCHANGED <<bufferVars, cl_senders>>
       \/ ExtractStep /\ UNCHANGED cl_senders
       \/ PathsStep /\ UNCHANGED <<bufferVars, cl_senders>>
       \/ SaveStep /\ UNCHANGED <<bufferVars, cl_senders>>
       \/ ThumbStep /\ UNCHANGED <<bufferVars, cl_senders>>
    /\ UNCHANGED <<trackerVars, zoneVars, pointVars, iouVars, riskVars, posVars, pipeVars,
                   mutexVars, managerVars, mqttVars>>

\* What the holders of the senders and the capture callback do
ClientStep ==
    /\ \/ /\ frames = <<>>
          /\ buf_lock = "free"
          /\ AddFrame(now)
          /\ UNCHANGED <<clipVars, cl_senders>>
       \/ /\ cl_senders > 0
          /\ \E w \in ClipWindows, link \in Links :
                Enqueue(ClipRequest(next_req, now, w[1], w[2], link))
          /\ UNCHANGED <<bufferVars, cl_senders>>
       \/ CloneSender /\ UNCHANGED <<bufferVars, clipVars>>
       \/ DropSender /\ UNCHANGED <<bufferVars, clipVars>>
    /\ UNCHANGED <<trackerVars, zoneVars, pointVars, iouVars, riskVars, posVars, pipeVars,
                   mutexVars, managerVars, mqttVars>>

ClipLiveNext == WorkerStep \/ ClientStep

\* The runtime polls the spawned worker task: a step of run() that can be
\* taken is eventually taken
SpecClipLive == Init /\ [][ClipLiveNext]_vars /\ WF_vars(WorkerStep)

MqttNext ==
    /\ \/ \E payload \in MqttPayloads : PollPublish(payload)
       \/ PollOther
       \/ PollError
    /\ UNCHANGED <<trackerVars, zoneVars, pointVars, iouVars, bufferVars, clipVars, riskVars,
                   posVars, pipeVars, mutexVars, managerVars, senderVars>>

SpecMqtt == Init /\ [][MqttNext]_vars

(***************************************************************************)
(* Claims about the tracker.                                               *)
(***************************************************************************)
TrackIx == 1..Len(tracks)

\* C1: a track is Confirmed exactly from the min_hits-th frame that contains
\* it (seen counts those frames) and never before, and update() returns no
\* detection for a track that fewer than min_hits frames have contained.
C1_ConfirmedAtMinHits ==
    /\ \A k \in TrackIx :
          (tracks[k].state = "Confirmed") <=> (seen[tracks[k].id] >= min_hits)
    /\ \A n \in 1..Len(ret) : ret[n].track_id # None /\ seen[Unwrap(ret[n].track_id)] >= min_hits

\* C2: across one update() a track's state goes Tentative -> Tentative,
\* Tentative -> Confirmed or Confirmed -> Confirmed, or the track is marked
\* Lost and dropped; the id of a dropped track is held by no track afterwards.
C2_Step ==
    /\ \A k \in TrackIx :
          \/ \E j \in 1..Len(tracks') :
                /\ tracks'[j].id = tracks[k].id
                /\ <<tracks[k].state, tracks'[j].state>> \in
                      {<<"Tentative", "Tentative">>, <<"Tentative", "Confirmed">>,
                       <<"Confirmed", "Confirmed">>}
          \/ /\ \E j \in 1..Len(lost') :
                   lost'[j].id = tracks[k].id /\ lost'[j].state = "Lost"
             /\ tracks[k].state \in {"Tentative", "Confirmed"}
             /\ tracks[k].id \notin Ids(tracks')
    /\ \A id \in removed : id \notin Ids(tracks')

C2_Lifecycle == [][C2_Step]_vars

\* C2 witness: a track that had been Confirmed has just been marked Lost
C2_Witness == \E j \in 1..Len(lost) : lost[j].hits >= min_hits

\* C3: ids are handed out in strictly increasing order, no two tracks share
\* an id, and the id of a purged track is held by no track and carried by no
\* returned detection.
C3_IdsFresh ==
    /\ \A j, k \in TrackIx : j < k => tracks[j].id < tracks[k].id
    /\ \A k \in TrackIx : tracks[k].id < next_id
    /\ \A id \in spawned : \A old \in (Ids(tracks) \cup removed) \ spawned : old < id
    /\ removed \cap Ids(tracks) = {}
    /\ \A n \in 1..Len(ret) : ret[n].track_id \cap removed = {}

\* C3 witness: a track is created after another one was purged
C3_Witness == removed # {} /\ spawned # {} /\ spawned \subseteq Ids(tracks)

\* C4: after update() no held track is Lost or older than max_age; a track
\* is purged in the call in which its age passes max_age unmatched, so one
\* of age exactly max_age is still held.
C4_Purge ==
    /\ \A k \in TrackIx : tracks[k].state # "Lost" /\ tracks[k].age <= max_age
    /\ \A j \in 1..Len(lost) :
          /\ lost[j].age = max_age + 1
          /\ lost[j].id \notin matched
          /\ lost[j].id \notin Ids(tracks)

\* C4 witness: one track has just been purged while another, unmatched for
\* exactly max_age calls, is held
C4_Witness == lost # <<>> /\ \E k \in TrackIx : tracks[k].age = max_age

\* C5: update() returns one detection for each track that is Confirmed and
\* was matched in the call, carrying the track's box and id, and nothing else.
C5_Returned ==
    LET want == {k \in TrackIx : tracks[k].state = "Confirmed" /\ tracks[k].id \in matched}
    IN  /\ Len(ret) = Cardinality(want)
        /\ \A k \in want :
              \E n \in 1..Len(ret) : ret[n] = [tracks[k].bbox EXCEPT !.track_id = Some(tracks[k].id)]
        /\ \A n \in 1..Len(ret) : \E k \in want : ret[n].track_id = Some(tracks[k].id)
        /\ \A m, n \in 1..Len(ret) : m # n => ret[m].track_id # ret[n].track_id

\* C5 witness: a call returns a detection while it also holds a Tentative
\* track and a Confirmed track that it did not match
C5_Witness ==
    /\ ret # <<>>
    /\ \E k \in TrackIx : tracks[k].state = "Tentative"
    /\ \E k \in TrackIx : tracks[k].state = "Confirmed" /\ tracks[k].age > 0

\* C6: every detection of a call either updates exactly one existing track
\* or creates exactly one new Tentative track with a fresh id, never both.
C6_MatchOrSpawn ==
    /\ Cardinality(matched) + Cardinality(spawned) = Len(dets)
    /\ matched \cap spawned = {}
    /\ spawned = (next_id - Cardinality(spawned))..(next_id - 1)
    /\ \A id \in spawned :
          Cardinality({k \in TrackIx : tracks[k].id = id}) = 1
    /\ \A k \in TrackIx :
          tracks[k].id \in spawned => tracks[k].state = "Tentative" /\ tracks[k].age = 0
    /\ \A k \in TrackIx : tracks[k].age = 0 <=> tracks[k].id \in matched \cup spawned

\* C6 witness: three detections, one matching a track that was Confirmed
\* already, the other two creating tracks
C6_Witness ==
    /\ Len(dets) = 3
    /\ Cardinality(spawned) = 2
    /\ \E k \in TrackIx :
          matched = {tracks[k].id} /\ tracks[k].state = "Confirmed" /\ seen[tracks[k].id] > 2

(***************************************************************************)
(* Claims about the zone counter.                                          *)
(***************************************************************************)
ZoneIx == 1..Len(zones)

\* C8: no zone's current_count is ever negative.
C8_NonNegative == \A z \in ZoneIx : zones[z].current_count >= 0

\* C8 witness: a zone has recorded more exits than entries (an exit came
\* while its current_count was 0)
C8_Witness == \E z \in ZoneIx : zones[z].exit_count > zones[z].entry_count

\* C9: for every zone entry_count - exit_count = current_count.
C9_Balance ==
    \A z \in ZoneIx : zones[z].entry_count - zones[z].exit_count = zones[z].current_count

\* C10: every zone's current_count is the number of tracked detections of
\* the most recent update() whose box centre lies inside the zone.
C10_LiveCount ==
    \A z \in ZoneIx :
        zones[z].current_count =
            Cardinality({n \in 1..Len(tracked) :
                            contains_point(zones[z], center(tracked[n])[1],
                                           center(tracked[n])[2])})

(***************************************************************************)
(* Claims about calculate_iou.                                             *)
(***************************************************************************)
\* a and b share no area: one lies left of, right of, above or below the other
NoOverlap(a, b) ==
    \/ a.x + a.width <= b.x
    \/ b.x + b.width <= a.x
    \/ a.y + a.height <= b.y
    \/ b.y + b.height <= a.y

HasArea(a) == a.width > 0 /\ a.height > 0

\* p = q for quotients with positive denominators
IouEq(p, q) == p[1] * q[2] = q[1] * p[2]

\* C7 as claimed: for all boxes a and b, calculate_iou(a, a) is 1,
\* calculate_iou(a, b) is 0 when a and b do not overlap, and
\* calculate_iou(a, b) equals calculate_iou(b, a).
C7_IouLaws ==
    iou # <<>> =>
        /\ IouEq(iou.aa, <<1, 1>>)
        /\ NoOverlap(iou_a, iou_b) => IouEq(iou.ab, <<0, 1>>)
        /\ IouEq(iou.ab, iou.ba)

\* C7 as amended: calculate_iou(a, a) is 1 for a box of positive width and
\* height and 0 for a box of zero width or height; calculate_iou(a, b) is 0
\* when a and b do not overlap; calculate_iou(a, b) equals calculate_iou(b, a).
C7_IouLawsWithArea ==
    iou # <<>> =>
        /\ HasArea(iou_a) => IouEq(iou.aa, <<1, 1>>)
        /\ ~HasArea(iou_a) => IouEq(iou.aa, <<0, 1>>)
        /\ NoOverlap(iou_a, iou_b) => IouEq(iou.ab, <<0, 1>>)
        /\ IouEq(iou.ab, iou.ba)

\* C7 witness: calculate_iou has been applied to two different boxes that
\* overlap in part
C7_Witness ==
    /\ iou # <<>>
    /\ HasArea(iou_a)
    /\ iou_a # iou_b
    /\ IouGt(iou.ab, <<0, 1>>)
    /\ IouGt(<<1, 1>>, iou.ab)

(***************************************************************************)
(* Claims about contains_point.                                            *)
(***************************************************************************)
Vertices(zone) == {zone.polygon[k] : k \in 1..Len(zone.polygon)}
XMin(zone) == CHOOSE a \in {v[1] : v \in Vertices(zone)} : \A v \in Vertices(zone) : a <= v[1]
XMax(zone) == CHOOSE a \in {v[1] : v \in Vertices(zone)} : \A v \in Vertices(zone) : a >= v[1]
YMin(zone) == CHOOSE a \in {v[2] : v \in Vertices(zone)} : \A v \in Vertices(zone) : a <= v[2]
YMax(zone) == CHOOSE a \in {v[2] : v \in Vertices(zone)} : \A v \in Vertices(zone) : a >= v[2]
StrictlyInRect(zone, p) ==
    XMin(zone) < p[1] /\ p[1] < XMax(zone) /\ YMin(zone) < p[2] /\ p[2] < YMax(zone)
OutsideRect(zone, p) ==
    p[1] < XMin(zone) \/ p[1] > XMax(zone) \/ p[2] < YMin(zone) \/ p[2] > YMax(zone)
\* The triangle (8,0), (16,8), (8,16): its interior and its exterior
StrictlyInTriangle(p) == p[1] > 8 /\ p[2] > p[1] - 8 /\ p[2] < 24 - p[1]
OutsideTriangle(p) == p[1] < 8 \/ p[2] < p[1] - 8 \/ p[2] > 24 - p[1]

\* C11: for the unit square (0,0), (1,0), (1,1), (0,1), contains_point returns
\* true for each of the four corners and for every interior point, and false
\* for every point outside the square.
C11_Vertices ==
    (pt_inside # <<>> /\ pt_zone = UnitSquare) =>
        /\ pt \in Vertices(pt_zone) => pt_inside[1]
        /\ StrictlyInRect(pt_zone, pt) => pt_inside[1]
        /\ OutsideRect(pt_zone, pt) => ~pt_inside[1]

\* C11, amended: contains_point is half-open on the boundary.  For an
\* axis-parallel rectangle it returns true exactly for the points with
\* xmin <= x < xmax and ymin <= y < ymax, so of the four corners only the one
\* with the least x and y is inside; for the triangle it returns true for
\* every interior point and false for every point outside.
C11_HalfOpen ==
    pt_inside # <<>> =>
        /\ pt_zone \in {UnitSquare, Rectangle} =>
              (pt_inside[1] <=> /\ XMin(pt_zone) <= pt[1] /\ pt[1] < XMax(pt_zone)
                                /\ YMin(pt_zone) <= pt[2] /\ pt[2] < YMax(pt_zone))
        /\ pt_zone = TriangleZone =>
              /\ StrictlyInTriangle(pt) => pt_inside[1]
              /\ OutsideTriangle(pt) => ~pt_inside[1]

\* The corner (1,1) of the unit square has been classified, as outside
C11_Witness ==
    pt_zone = UnitSquare /\ pt = <<8, 8>> /\ pt_inside = <<FALSE>>

(***************************************************************************)
(* Claims about panics on the frame path.                                  *)
(***************************************************************************)
\* C12: for every zone list that Zone::new / ZoneCounter::new accept, a
\* polygon with fewer than three vertices or none included, and every list of
\* tracked detections, ZoneCounter.update() completes without panicking.
C12_NoPanic == ~zone_panicked

(***************************************************************************)
(* Claims about the VideoBuffer.                                           *)
(***************************************************************************)
Fresh(f) == f.timestamp >= now - max_duration

\* C13: at any moment, also after the clock has advanced without a further
\* add_frame, extract_frames returns no frame older than now - retention.
C13_ExtractFresh ==
    buf_op = "extract" => \A k \in 1..Len(extracted) : Fresh(extracted[k])

\* C14: immediately after any add_frame returns, whatever the order of the
\* timestamps appended, the buffer holds no frame older than now - retention.
C14_BufferFresh ==
    buf_op = "add" => \A k \in 1..Len(frames) : Fresh(frames[k])

\* C15: extract_frames(start, end) returns, in buffer order, exactly the
\* buffered frames with start <= timestamp <= end (none when start > end or
\* nothing matches), and leaves the buffer unchanged.
C15_Step ==
    buf_op' = "extract" =>
        /\ frames' = frames
        /\ LET InWindow(f) == /\ ex_window'[1] <= f.timestamp
                              /\ f.timestamp <= ex_window'[2]
           IN  extracted' = SelectSeq(frames, InWindow)
C15_Extract == [][C15_Step]_vars

\* An extraction returned some but not all of the buffered frames, among them
\* one stamped exactly with the end of the range
C15_Witness ==
    /\ buf_op = "extract"
    /\ extracted # <<>>
    /\ Len(extracted) < Len(frames)
    /\ \E k \in 1..Len(extracted) : extracted[k].timestamp = ex_window[2]

(***************************************************************************)
(* Claims about the clip extractor.                                        *)
(***************************************************************************)
Stamps(fr) == {fr[k].timestamp : k \in 1..Len(fr)}
Oldest(fr) == CHOOSE t \in Stamps(fr) : \A u \in Stamps(fr) : t <= u
Newest(fr) == CHOOSE t \in Stamps(fr) : \A u \in Stamps(fr) : t >= u
\* The buffer that process_request found spans the whole requested window
Covered(r) ==
    /\ r.buffered # <<>>
    /\ Oldest(r.buffered) <= r.request.timestamp - r.request.duration_before_secs
    /\ Newest(r.buffered) >= r.request.timestamp + r.request.duration_after_secs
Succeeded == last_result # <<>> /\ last_result[1].outcome = "ok"

C17_Clamped ==
    (Succeeded /\ ~Covered(last_result[1])) =>
        /\ last_result[1].clip[1].start_time >= Oldest(last_result[1].buffered)
        /\ last_result[1].clip[1].end_time <= Newest(last_result[1].buffered)

\* C18: the worker starts the requests in the order they were sent (ids are
\* handed out in that order), whatever their priority, and never starts one
\* before the previous one has finished.
C18_Fifo ==
    /\ \A k \in 1..Len(started) : started[k] = k
    /\ Len(done) <= Len(started) /\ Len(started) <= Len(done) + 1
    /\ \A k \in 1..Len(done) : done[k].id = started[k]
    /\ (Len(started) = Len(done) + 1) <=> (current # <<>>)

\* A Low request is being processed while a Critical one waits
C18_Witness ==
    /\ current # <<>> /\ current[1].priority = "Low"
    /\ queue # <<>> /\ queue[1].priority = "Critical"

\* C19: a failing request does not stop the worker loop (run() ends early
\* only when it cannot create output_dir, before the first request), and
\* every request sent is processed exactly once: none twice, and all of them
\* by the time the worker waits on an empty channel.
C19_LoopSurvives ==
    /\ worker = "stopped" => started = <<>>
    /\ \A k, m \in 1..Len(done) : done[k].id = done[m].id => k = m
    /\ (worker = "recv" /\ queue = <<>>) =>
           /\ Len(done) = next_req - 1
           /\ \A k \in 1..Len(done) : done[k].id = k

\* A request failed and the next one produced a clip
C19_Witness ==
    /\ Len(done) = 2
    /\ done[1].outcome # "ok"
    /\ done[2].outcome = "ok"

\* C20: a request whose window contains no buffered frame fails with the
\* no-frames error at once: nothing is created under output_dir, the buffer
\* is unchanged and the queued requests are unaffected.
C20_Step ==
    (/\ worker = "extract" /\ worker' # "extract"
     /\ LET InWindow(f) == /\ start_time(current[1]) <= f.timestamp
                           /\ f.timestamp <= end_time(current[1])
        IN  SelectSeq(frames, InWindow) = <<>>) =>
        /\ last_result' = <<[request |-> current[1], outcome |-> "no_frames",
                             clip |-> <<>>, buffered |-> frames]>>
        /\ worker' = "recv"
        /\ fs' = fs
        /\ frames' = frames
        /\ queue' = queue
C20_NoFrames == [][C20_Step]_vars

\* A request failed for want of frames while the buffer held frames and
\* another request was waiting
C20_Witness ==
    /\ last_result # <<>>
    /\ last_result[1].outcome = "no_frames"
    /\ last_result[1].buffered # <<>>
    /\ frames # <<>>
    /\ queue # <<>>

\* C21: for a request whose window contains frames, a failure in any part of
\* the thumbnail step, the creation of the thumbnail directory included,
\* never makes process_request return an error.
C21_ThumbnailNonFatal ==
    \A k \in 1..Len(done) : done[k].outcome # "thumb_dir_error"

\* C22: while the worker creates the paths, encodes the clip or writes the
\* thumbnail it does not hold the lock of the frame buffer, so an add_frame
\* on the ingestion path does not have to wait for it.
C22_LockFree ==
    worker \in {"paths", "save", "thumb"} => buf_lock = "free"

\* A frame has been appended while the worker was encoding a clip
C22_Witness ==
    /\ worker = "save"
    /\ buf_op = "add"
    /\ frames # buffered

(***************************************************************************)
(* Claims about the RiskAnalyzer.  Decimal sums are in tenths; Near says   *)
(* that an f32 score is within one f32 step (2^-24) of a decimal value.    *)
(***************************************************************************)
Scored == risk # <<>>
AlertTypes == {"VoidTransaction", "RefundIssued", "SuspiciousReturn", "NoSaleOpened"}
\* Base score plus the bonuses for amount, discount and hour
ListedTenths(event) ==
    (CASE event.event_type = "VoidTransaction" -> 4
       [] event.event_type = "RefundIssued" -> 5
       [] event.event_type = "PriceOverride" -> 3
       [] event.event_type = "NoSaleOpened" -> 6
       [] event.event_type = "CashDrawerOpened" -> 3
       [] event.event_type = "SuspiciousReturn" -> 7
       [] event.event_type = "DiscountApplied" -> 2
       [] OTHER -> 1)
    + (IF \E a \in event.amount : a > 1000 THEN 2 ELSE 0)
    + (IF \E d \in event.discount_percent : d > 30 THEN 3 ELSE 0)
    + (IF event.hour \in (0..5) \cup {23} THEN 1 ELSE 0)
\* ... plus the bonus for the repeat_offender key in the metadata
AllTenths(event) == ListedTenths(event) + (IF event.repeat_offender THEN 3 ELSE 0)
Near(score, tenths) ==
    /\ score - F32Lit(tenths) <= 8
    /\ F32Lit(tenths) - score <= 8

\* C25: the score is in [0, 1] and equals the minimum of 1 and the sum of the
\* type's base score and the bonuses for amount, discount and hour, for every
\* combination of type, amount, discount, metadata and hour.
C25_Score ==
    Scored =>
        /\ 0 <= risk[1].score /\ risk[1].score <= F32Lit(10)
        /\ Near(risk[1].score, Min(10, ListedTenths(risk_event)))

\* C25, amended: the score is in [0, 1] and equals, up to one f32 rounding
\* step, the minimum of 1 and the sum of the base score and the bonuses for
\* amount, discount, the repeat_offender metadata key (0.3) and hour.
C25_ScoreWithMetadata ==
    Scored =>
        /\ 0 <= risk[1].score /\ risk[1].score <= F32Lit(10)
        /\ Near(risk[1].score, Min(10, AllTenths(risk_event)))

\* An event with the repeat_offender key whose sum exceeds 1 has been scored
C25_Witness ==
    /\ Scored
    /\ risk_event.repeat_offender
    /\ AllTenths(risk_event) > 10
    /\ risk[1].score = F32Lit(10)

\* C26: should_alert is true exactly when the score is strictly above 0.6 or
\* the type is VoidTransaction, RefundIssued, SuspiciousReturn or NoSaleOpened.
C26_Alert ==
    Scored =>
        /\ risk[1].alert <=>
              (risk[1].score > F32Lit(6) \/ risk_event.event_type \in AlertTypes)
        /\ risk[1].alert <=>
              (AllTenths(risk_event) > 6 \/ risk_event.event_type \in AlertTypes)

\* An event of another type with a score of exactly 0.6 raised no alert
C26_Witness ==
    /\ Scored
    /\ risk_event.event_type \notin AlertTypes
    /\ risk[1].score = F32Lit(6)
    /\ ~risk[1].alert

\* C27: with the default thresholds and empty metadata, at every hour, a
\* VoidTransaction of 1500 with 40% discount scores above 0.5 and alerts, and
\* a PaymentCleared of 50 without discount scores below 0.3 and does not.
C27_Scenario ==
    (Scored /\ ~risk_event.repeat_offender) =>
        /\ (/\ risk_event.event_type = "VoidTransaction"
            /\ risk_event.amount = Some(1500)
            /\ risk_event.discount_percent = Some(40)) =>
               (risk[1].score > F32Lit(5) /\ risk[1].alert)
        /\ (/\ risk_event.event_type = "PaymentCleared"
            /\ risk_event.amount = Some(50)
            /\ risk_event.discount_percent = None) =>
               (risk[1].score < F32Lit(3) /\ ~risk[1].alert)

\* The PaymentCleared of the scenario has been scored outside normal hours
C27_Witness ==
    /\ Scored
    /\ risk_event = POSEvent(1, "PaymentCleared", Some(50), None, FALSE, 23)
    /\ risk[1].score = F32Lit(2)

(***************************************************************************)
(* Claims about the phase-5 POS handler and the phase-6 frame tasks.       *)
(***************************************************************************)
\* C23: issuing the clip request for an alert never waits: the handler's
\* send completes at once however many requests are queued and whether or
\* not the worker takes them out.
C23_SendNeverWaits == p5_pc # "send"

\* C24: the tracker sees the frames in strict arrival order, whatever the
\* latency of each frame's inference.
C24_ArrivalOrder ==
    \A j, k \in 1..Len(p6_tracker_order) :
        j < k => p6_tracker_order[j] < p6_tracker_order[k]

\* C28: with clips enabled, the event handled last, if it raised an alert,
\* has exactly one request in the channel, the newest one, with the event's
\* timestamp, 30 seconds before and after, the event's id, a fresh alert id
\* and priority High; every alert so far has put one request there, and an
\* event that raised no alert has put none.
C28_OneRequestPerAlert ==
    (p5_clip_sender /\ p5_event # <<>>) =>
        /\ Len(p5_channel) = p5_metrics.alerts_triggered
        /\ \A j, k \in 1..Len(p5_channel) :
              j # k => /\ p5_channel[j].pos_event_id # p5_channel[k].pos_event_id
                       /\ p5_channel[j].alert_id # p5_channel[k].alert_id
        /\ RaisesAlert(p5_event[1]) =>
              /\ p5_channel # <<>>
              /\ LET request == p5_channel[Len(p5_channel)]
                 IN  /\ request.timestamp = p5_event[1].timestamp
                     /\ request.duration_before_secs = 30
                     /\ request.duration_after_secs = 30
                     /\ request.pos_event_id = Some(p5_event[1].id)
                     /\ request.alert_id # None
                     /\ request.priority = "High"
        /\ ~RaisesAlert(p5_event[1]) =>
              \A k \in 1..Len(p5_channel) :
                  p5_channel[k].pos_event_id # Some(p5_event[1].id)

(***************************************************************************)
(* Claims about the pairing of detections and tracks inside update().      *)
(***************************************************************************)
\* The pairs one pass accepts, as [id, det, hits]: the track's id, the
\* detection of the pass's own list it was paired with, and the track's
\* hit counter before the call
PassPairs(trks, detections, track_indices) ==
    LET m == match_detections_by_indices(trks, detections, track_indices)
    IN  {[id |-> trks[m.matched[n][2]].id,
          det |-> detections[m.matched[n][1]],
          hits |-> trks[m.matched[n][2]].hits] : n \in 1..Len(m.matched)}

\* The pairs of both passes of update(detections) on the tracks trks
CallPairs(trks, detections) ==
    LET aged == AgeTracks(trks)
        first == match_detections_by_indices(aged, detections, IndicesOf(aged, "Confirmed"))
    IN  [confirmed |-> PassPairs(aged, detections, IndicesOf(aged, "Confirmed")),
         tentative |-> PassPairs(aged, first.unmatched_dets, IndicesOf(aged, "Tentative"))]

\* C29: after update(), every track matched in either pass holds the box of
\* the detection it was paired with (also a Tentative track matched in the
\* second pass after the first pass consumed earlier detections), its age
\* is 0 and its hit counter has grown by exactly one.
C29_PairedBox ==
    [][\A pair \in CallPairs(tracks, dets').confirmed \cup CallPairs(tracks, dets').tentative :
          \E k \in 1..Len(tracks') :
              /\ tracks'[k].id = pair.id
              /\ tracks'[k].bbox = pair.det
              /\ tracks'[k].age = 0
              /\ tracks'[k].hits = pair.hits + 1]_vars

\* The acceptances of one pass, replayed: each accepted pair is above the
\* threshold and no pair of a detection and a track both still unmatched
\* has a strictly higher IOU; at the end no remaining pair is above the
\* threshold
RECURSIVE HighestFirst(_, _, _, _, _)
HighestFirst(trks, detections, track_indices, i, acc) ==
    LET Free == {q \in (1..Len(detections)) \X (1..Len(track_indices)) :
                    q[1] \notin acc.md /\ q[2] \notin acc.mt}
        threshold == <<IouThresholdNum, IouThresholdDen>>
    IN  IF i > Len(detections)
        THEN \A q \in Free :
                ~IouGt(IouEntry(trks, detections, track_indices, q[1], q[2]), threshold)
        ELSE LET j == BestTrack(trks, detections, track_indices, acc.mt, i, 1, 0, threshold)
             IN  IF j = 0
                 THEN HighestFirst(trks, detections, track_indices, i + 1, acc)
                 ELSE /\ IouGt(IouEntry(trks, detections, track_indices, i, j), threshold)
                      /\ \A q \in Free :
                            ~IouGt(IouEntry(trks, detections, track_indices, q[1], q[2]),
                                   IouEntry(trks, detections, track_indices, i, j))
                      /\ HighestFirst(trks, detections, track_indices, i + 1,
                                      [pairs |-> acc.pairs, mt |-> acc.mt \cup {j},
                                       md |-> acc.md \cup {i}])

\* C30: within one matching pass pairs are accepted greedily by highest IOU:
\* an accepted pair is strictly above the threshold and no other pair of a
\* still-unmatched detection and a still-unmatched track has a strictly
\* higher IOU, and the pass stops only when no remaining pair exceeds the
\* threshold.
C30_HighestFirst ==
    [][LET aged == AgeTracks(tracks)
           confirmed_indices == IndicesOf(aged, "Confirmed")
           first == match_detections_by_indices(aged, dets', confirmed_indices)
           start == [pairs |-> <<>>, mt |-> {}, md |-> {}]
       IN  /\ HighestFirst(aged, dets', confirmed_indices, 1, start)
           /\ HighestFirst(aged, first.unmatched_dets, IndicesOf(aged, "Tentative"), 1,
                           start)]_vars

\* The assignment of one update(detections) call on the tracks trks, as the
\* loop "Update matched tracks" applies it: <<box handed over, track index>>
\* for the pairs of the first pass, then of the second
AppliedPairs(trks, detections) ==
    LET aged == AgeTracks(trks)
        first == match_detections_by_indices(aged, detections, IndicesOf(aged, "Confirmed"))
        second == match_detections_by_indices(aged, first.unmatched_dets,
                                              IndicesOf(aged, "Tentative"))
        pairs == first.matched \o second.matched
    IN  [n \in 1..Len(pairs) |->
            <<MatchedBox(detections, second.unmatched_dets, pairs[n][1]), pairs[n][2]>>]

\* C31: in one update() call the assignment is one-to-one across both
\* passes: no track takes more than one detection, and no detection (the
\* boxes of a frame are distinct) is taken by more than one track, so none
\* matched in the first pass goes to a Tentative track in the second.
C31_OneToOne ==
    [][\A a, b \in 1..Len(AppliedPairs(tracks, dets')) :
          a # b => /\ AppliedPairs(tracks, dets')[a][2] # AppliedPairs(tracks, dets')[b][2]
                   /\ AppliedPairs(tracks, dets')[a][1] # AppliedPairs(tracks, dets')[b][1]]_vars

(***************************************************************************)
(* Claims about what ZoneCounter::update stores.                           *)
(***************************************************************************)
\* The track ids of a list of tracked detections
TrackIdsOf(tracked_detections) ==
    UNION {tracked_detections[n].track_id : n \in 1..Len(tracked_detections)}

\* The detections of the list whose track has a position in positions
RECURSIVE KnownTracks(_, _, _)
KnownTracks(tracked_detections, positions, n) ==
    IF n > Len(tracked_detections) THEN <<>>
    ELSE IF tracked_detections[n].track_id \subseteq DOMAIN positions
         THEN <<tracked_detections[n]>> \o KnownTracks(tracked_detections, positions, n + 1)
    ELSE KnownTracks(tracked_detections, positions, n + 1)

\* C32: in the update() call in which a track id first appears (no position
\* stored for it), no zone's counters change because of that track, even
\* with its centre inside a zone: the zones end as a call without the new
\* tracks leaves them, and the new track's centre is stored.
C32_FirstAppearance ==
    [][/\ zones' = ZoneUpdateCall(zones, track_positions,
                                  KnownTracks(tracked', track_positions, 1)).zones
       /\ \A n \in 1..Len(tracked') :
             \A id \in tracked'[n].track_id \ DOMAIN track_positions :
                 /\ id \in DOMAIN track_positions'
                 /\ track_positions'[id] = center(tracked'[n])]_vars

\* A track whose centre is inside the square is stored and the square has
\* never counted an entry
C32_Witness ==
    \E n \in 1..Len(tracked) :
        /\ contains_point(zones[1], center(tracked[n])[1], center(tracked[n])[2])
        /\ tracked[n].track_id \subseteq DOMAIN track_positions
        /\ zones[1].entry_count = 0
        /\ zones[1].current_count = 0

\* C33: after every update() call the track ids with a stored position are
\* exactly the track ids of that call's input.
C33_PositionsOfInput == DOMAIN track_positions = TrackIdsOf(tracked)

\* A track that had entered the square is gone from the input and from the
\* stored positions
C33_Witness ==
    /\ zones[1].entry_count > 0
    /\ tracked = <<>>
    /\ DOMAIN track_positions = {}

(***************************************************************************)
(* Claims about the buffer under concurrent use.                           *)
(***************************************************************************)
\* C34: add_frame (append, then eviction) and extract_frames exclude each
\* other: what extract_frames returns is the in-window part of a buffer
\* state from before or after a whole add_frame, never of the state between
\* the append and the eviction.
C34_Atomic ==
    (buf_op = "extract" /\ mx_extract = "idle") =>
        \E fr \in mx_committed : extracted = extract_frames(fr, ex_window[1], ex_window[2])

\* An extraction over a range that starts at 0 returned only a later frame:
\* the frame stamped 0, once buffered alone, had been evicted by a whole
\* add_frame
C34_Witness ==
    /\ buf_op = "extract"
    /\ mx_extract = "idle"
    /\ ex_window[1] = 0
    /\ Len(extracted) = 1
    /\ extracted[1].timestamp > max_duration
    /\ <<FrameData(0)>> \in mx_committed

(***************************************************************************)
(* Further claims about the phase-6 frame tasks.                           *)
(***************************************************************************)
\* C35: the zone counter receives the tracker's outputs in the order the
\* tracker produced them: frames whose tracker.update() came in one order
\* have their zone_counter.update() in the same order.
C35_ZoneOrder ==
    \A a, b \in 1..Len(p6_zone_order) :
        a < b =>
            \E j, k \in 1..Len(p6_tracker_order) :
                /\ j < k
                /\ p6_tracker_order[j] = p6_zone_order[a]
                /\ p6_tracker_order[k] = p6_zone_order[b]

(***************************************************************************)
(* Further claims about the clip extractor.                                *)
(***************************************************************************)
\* C36: the VideoClip returned by process_request has thumbnail_path set only
\* if a thumbnail file was written for it; when thumbnail generation failed,
\* thumbnail_path is None.
C36_ThumbnailWritten ==
    Succeeded => last_result[1].clip[1].thumbnail_path \subseteq fs

(***************************************************************************)
(* Further claims about the phase-5 clip requests.                         *)
(***************************************************************************)
\* C37: in phase 5 with clips enabled a clip request sent for an alert is
\* eventually dequeued by an extraction worker (and then served from the
\* buffer the capture callback fills): here, the first request sent, whose
\* id is the second Uuid drawn, does not stay at the head of the channel
\* forever.
C37_EventuallyDequeued ==
    (p5_channel # <<>> /\ p5_channel[1].id = 2)
        ~> (p5_channel = <<>> \/ p5_channel[1].id # 2)

\* C38: request_clip places the request it builds on the queue of the
\* extractor registered for the named camera: every id it has returned is
\* the id of a request in the channel of an extractor of that camera (no
\* worker takes requests out here).
C38_RequestQueued ==
    \A n \in 1..Len(mg_returned) :
        \E k \in 1..Len(mg_extractors) :
            /\ mg_extractors[k].camera_id = mg_returned[n][2]
            /\ \E q \in 1..Len(mg_extractors[k].channel) :
                  mg_extractors[k].channel[q].id = mg_returned[n][1]

\* C39: run() terminates: once every sender handed out has been dropped and
\* the queued requests have been processed, the receive loop ends and run()
\* returns.
C39_RunReturns == (cl_senders = 0) ~> (worker \in {"returned", "stopped"})

\* C40: a malformed event is skipped: after a payload that does not parse
\* has been received, run() is still in its polling loop.
C40_KeepsPolling == mq_malformed => mq_pc = "poll"
====
